---- MODULE Spec2Model ----
(***************************************************************************)
(* A model of fusedrive: a FUSE filesystem backed by Google Drive.         *)
(*                                                                         *)
(*   SpecMutex  multimutex.KeyedMutex, hammered by threads (Lock/Unlock).  *)
(*   SpecCache  LocalFileCache (Open / MarkDirty / Release) called by      *)
(*              concurrent threads, on top of the same KeyedMutex.         *)
(*   SpecMeta   metadb.DB (bbolt paths bucket) and the DriveFileSystem     *)
(*              operations on it, served by the same threads.              *)
(*                                                                         *)
(* All specifications share the variables and Init; each one leaves the    *)
(* variables of the other subsystems alone.                                *)
(***************************************************************************)
EXTENDS Integers, Sequences, FiniteSets, Bags, TLC

(***************************************************************************)
(* Bounds of the model.                                                    *)
(***************************************************************************)
\* number of goroutines (FUSE worker threads)
NumThreads == 2
\* Lock calls each thread of SpecMutex may issue
MaxLocks == 2

\* records the paths bucket may hold in SpecMeta
MaxRecords == 3
\* Rename upcalls SpecMeta may issue
MaxRenames == 1
\* FileReferences that may be open at once
MaxHandles == 2

\* The objects the remote may come to hold in SpecFile.
MaxRemote == 2
\* EnqueueFile calls in SpecSync
MaxEnqueues == 3
\* The attempts backoff.Retry makes before its time is up
MaxAttempts == 3
\* bytes of the content of a remote call (or the size a ReadAt asks for)
MaxUpload == 1
\* The longest remote object a reader reads
MaxLen == 4
\* The longest buffer handed to a Read
MaxBuf == 3
\* the most bytes the write buffer of a DriveFile holds
MaxDirty == 2
\* the upcalls a DriveFile serves
DriveCalls == 3
\* the bytes that one Read of the body of an upload, or one Write of
\* io.Copy, moves: the buffers of the http client, scaled to files of
\* MaxLen bytes
ChunkSize == 1
\* defaultSequentialReadSize, defaultRandomReadSize (api/file_reader.go) and
\* defaultReadSize (drive_file.go), scaled to objects of MaxLen bytes; the
\* order random < buffer < sequential is that of the source.
SequentialReadSize == 3
RandomReadSize == 1
DriveBufSize == 2

Threads == 1..NumThreads

\* The names the threads lock: paths of remote-backed files, as byte strings.
Keys == {<<"f">>, <<"g">>}

NoThread == 0
NoObj == 0

VARIABLES
  \* ---- multimutex.KeyedMutex ------------------------------------------
  mutexes,    \* KeyedMutex.mutexes: a map from name to countMutex object
  objs,       \* the heap of countMutex objects: address -> [count, locked]
  mapMutex,   \* owner of KeyedMutex.mapMutex, or NoThread
  pc,         \* where each thread is inside Lock / Unlock
  key,        \* the name a thread passed to Lock / Unlock
  mtx,        \* the local variable mtx of Lock / Unlock
  locksLeft,  \* the calls a thread with a budget may still make
  \* ---- metadb.DB and the remote -----------------------------------------
  db,         \* the paths bucket: key bytes -> serialised Attributes
  remote,     \* the objects on the remote: id -> content
  last,       \* the upcall that returned last: [op, a, b, status, err, out]
  renamesLeft, \* Rename upcalls SpecMeta may still issue
  \* ---- LocalFileCache ---------------------------------------------------
  files,      \* LocalFileCache.files: name -> refcountedFile object
  rfs,        \* the refcountedFile objects and their local files
  handles,    \* the FileReferences the kernel holds (a bag)
  call,       \* the handler each thread is in, with its arguments, its
              \* locals and the place it has reached
  \* ---- inline files ----------------------------------------------------
  contentBucket, \* the content bucket: key bytes -> bytes of an inline file
  dbfiles,    \* the DbFiles the kernel holds: address -> [name, writeLock,
              \* wrote]
  \* ---- api.FileReader and DriveFile --------------------------------------
  object,     \* the bytes of the remote object a reader reads
  fileReader, \* the FileReader: [position, length, httpResponse, readSize]
  readLog,    \* the Reads of the FileReader so far: [start, got, len, n, err]
  driveFile,  \* the DriveFile: [opened, reader, readerPosition, dataBuffer],
              \* reader and dataBuffer being addresses
  driveLast,  \* what the method of the DriveFile that has just returned
              \* gave: [op, thread, off, len, ok, status, data]
  driveCall,  \* the method of the DriveFile each thread is in: [op, stage,
              \* off, len, data, reader, want, at, err, ok, buf, pos]
  readers,    \* the heap of bufio.Readers: address -> [position, buf, err]
  buffers,    \* the heap of byte arrays: address -> bytes
  \* ---- api.Syncer ---------------------------------------------------------
  queue,      \* Syncer.queue: the Uploads in the channel
  syncer,     \* the process, its worker and a call of Stop: [running, pc,
              \* step, upload, enq, left, stop]
  disk,       \* the paths of the local files that exist
  received,   \* the ids whose bytes the remote received from the worker
  syncLog,    \* [pending, last, call]: the uploads enqueued and not yet
              \* uploaded, the last uploadFile that returned, and the last
              \* call of the remote the worker made, with its upload
  \* ---- api.DriveApi -------------------------------------------------------
  apiCall,    \* the call of a remote method: [method, size, state, attempts,
              \* result, stopped, pos]; pos is where its reader or its
              \* file stands
  \* ---- what the properties remember of a run ---------------------------
  disturbed,  \* the threads whose upcall ran while another upcall was in
              \* progress
  moved       \* the last rename of an inline file: [from, to, content], the
              \* content being what was stored under from when it was renamed

mutexVars == <<mutexes, objs, mapMutex, pc, key, mtx>>

metaVars == <<db, remote, last>>

cacheVars == <<files, rfs, handles, call>>

inlineVars == <<contentBucket, dbfiles>>

driveVars == <<driveFile, driveLast, driveCall, readers, buffers>>

readerVars == <<object, fileReader, readLog, driveVars>>

\* The variables of the file system, and those of the parts beside it.
fsVars == <<mutexVars, locksLeft, renamesLeft, metaVars, cacheVars, inlineVars>>

syncVars == <<queue, syncer, disk, received, syncLog>>

apiVars == <<apiCall>>

extraVars == <<disturbed, moved>>

auxVars == <<readerVars, syncVars, apiVars, extraVars>>

vars == <<fsVars, auxVars>>

(***************************************************************************)
(* Go maps: a function whose domain is the set of keys present.            *)
(***************************************************************************)
MapPut(m, k, v) == [x \in DOMAIN m \cup {k} |-> IF x = k THEN v ELSE m[x]]

MapDelete(m, k) == [x \in DOMAIN m \ {k} |-> m[x]]

\* The values a map holds.
MapValues(m) == {m[x] : x \in DOMAIN m}

(***************************************************************************)
(* The Go heap: an object lives at an address while something refers to    *)
(* it. A new object gets the lowest address that no live object has.       *)
(***************************************************************************)
NewAddr(heap) ==
  CHOOSE i \in 1..(Cardinality(DOMAIN heap) + 1) :
    /\ i \notin DOMAIN heap
    /\ \A j \in 1..(i - 1) : j \in DOMAIN heap

\* The heap with only the objects that are still referred to.
Collect(heap, referred) == [i \in DOMAIN heap \cap referred |-> heap[i]]

(***************************************************************************)
(* multimutex.KeyedMutex (src/README.md)                                   *)
(***************************************************************************)
Crashed == \E t \in Threads : pc[t] = "panic"

\* Lock, line 56: c.mapMutex.Lock()
LockMapAcquire(t, k) ==
  /\ ~Crashed
  /\ pc[t] = "idle"
  /\ mapMutex = NoThread
  /\ mapMutex' = t
  /\ key' = [key EXCEPT ![t] = k]
  /\ pc' = [pc EXCEPT ![t] = "L_map"]
  /\ UNCHANGED <<mutexes, objs, mtx>>

\* A Lock that never looks the name up and always installs a new countMutex.
LockEntry_AlwaysNew(t) ==
  /\ ~Crashed
  /\ pc[t] = "L_map"
  /\ objs' = MapPut(objs, NewAddr(objs), [count |-> 1, locked |-> FALSE])
  /\ mutexes' = MapPut(mutexes, key[t], NewAddr(objs))
  /\ mtx' = [mtx EXCEPT ![t] = NewAddr(objs)]
  /\ pc' = [pc EXCEPT ![t] = "L_unmap"]
  /\ UNCHANGED <<mapMutex, key>>

\* Lock, lines 57-72: look the name up; count++ or a new countMutex{count: 1}
LockEntry(t) ==
  /\ ~Crashed
  /\ pc[t] = "L_map"
  /\ IF key[t] \in DOMAIN mutexes
       THEN /\ objs' = [objs EXCEPT ![mutexes[key[t]]].count = @ + 1]
            /\ mtx' = [mtx EXCEPT ![t] = mutexes[key[t]]]
            /\ UNCHANGED mutexes
       ELSE /\ objs' = MapPut(objs, NewAddr(objs), [count |-> 1, locked |-> FALSE])
            /\ mutexes' = MapPut(mutexes, key[t], NewAddr(objs))
            /\ mtx' = [mtx EXCEPT ![t] = NewAddr(objs)]
  /\ pc' = [pc EXCEPT ![t] = "L_unmap"]
  /\ UNCHANGED <<mapMutex, key>>

\* A Lock that goes on to mtx.Lock() with mapMutex still locked.
LockMapRelease_KeepMap(t) ==
  /\ ~Crashed
  /\ pc[t] = "L_unmap"
  /\ pc' = [pc EXCEPT ![t] = "L_wait"]
  /\ UNCHANGED <<mutexes, objs, mapMutex, key, mtx>>

\* Lock, line 73: c.mapMutex.Unlock()
LockMapRelease(t) ==
  /\ ~Crashed
  /\ pc[t] = "L_unmap"
  /\ mapMutex' = NoThread
  /\ pc' = [pc EXCEPT ![t] = "L_wait"]
  /\ UNCHANGED <<mutexes, objs, key, mtx>>

\* Lock, line 76: mtx.Lock() blocks until the countMutex is free
LockAcquire(t) ==
  /\ ~Crashed
  /\ pc[t] = "L_wait"
  /\ ~objs[mtx[t]].locked
  /\ objs' = [objs EXCEPT ![mtx[t]].locked = TRUE]
  /\ pc' = [pc EXCEPT ![t] = "held"]
  /\ UNCHANGED <<mutexes, mapMutex, key, mtx>>

\* Unlock, line 82: c.mapMutex.Lock()
UnlockMapAcquire(t) ==
  /\ ~Crashed
  /\ pc[t] = "held"
  /\ mapMutex = NoThread
  /\ mapMutex' = t
  /\ pc' = [pc EXCEPT ![t] = "U_map"]
  /\ UNCHANGED <<mutexes, objs, key, mtx>>

\* An Unlock that decrements the count but never evicts the entry.
UnlockEntry_NeverDelete(t) ==
  /\ ~Crashed
  /\ pc[t] = "U_map"
  /\ IF key[t] \notin DOMAIN mutexes
       THEN /\ pc' = [pc EXCEPT ![t] = "panic"]
            /\ UNCHANGED <<mutexes, objs, mtx>>
       ELSE /\ objs' = [objs EXCEPT ![mutexes[key[t]]].count = @ - 1]
            /\ mtx' = [mtx EXCEPT ![t] = mutexes[key[t]]]
            /\ UNCHANGED mutexes
            /\ pc' = [pc EXCEPT ![t] = "U_unmap"]
  /\ UNCHANGED <<mapMutex, key>>

\* Unlock, lines 84-100: panic on a missing entry; count--, delete at zero
UnlockEntry(t) ==
  /\ ~Crashed
  /\ pc[t] = "U_map"
  /\ IF key[t] \notin DOMAIN mutexes
       THEN /\ pc' = [pc EXCEPT ![t] = "panic"]
            /\ UNCHANGED <<mutexes, objs, mtx>>
       ELSE /\ objs' = [objs EXCEPT ![mutexes[key[t]]].count = @ - 1]
            /\ mtx' = [mtx EXCEPT ![t] = mutexes[key[t]]]
            /\ mutexes' = IF objs[mutexes[key[t]]].count - 1 = 0
                            THEN MapDelete(mutexes, key[t])
                            ELSE mutexes
            /\ pc' = [pc EXCEPT ![t] = "U_unmap"]
  /\ UNCHANGED <<mapMutex, key>>

\* Unlock, line 101: c.mapMutex.Unlock()
UnlockMapRelease(t) ==
  /\ ~Crashed
  /\ pc[t] = "U_unmap"
  /\ mapMutex' = NoThread
  /\ pc' = [pc EXCEPT ![t] = "U_unlock"]
  /\ UNCHANGED <<mutexes, objs, key, mtx>>

\* Unlock, line 104: mtx.Unlock(); sync.Mutex dies on unlocking an unlocked
\* mutex. On return the local mtx is gone, and with it perhaps the last
\* reference to an evicted countMutex.
UnlockRelease(t) ==
  /\ ~Crashed
  /\ pc[t] = "U_unlock"
  /\ IF objs[mtx[t]].locked
       THEN /\ mtx' = [mtx EXCEPT ![t] = NoObj]
            /\ objs' = Collect([objs EXCEPT ![mtx[t]].locked = FALSE],
                                MapValues(mutexes) \cup MapValues(mtx'))
            /\ pc' = [pc EXCEPT ![t] = "idle"]
       ELSE /\ pc' = [pc EXCEPT ![t] = "panic"]
            /\ UNCHANGED <<objs, mtx>>
  /\ UNCHANGED <<mutexes, mapMutex, key>>

(***************************************************************************)
(* Byte strings. A path is the sequence of its characters; Code gives the  *)
(* byte of each character, which is what bbolt orders its keys by.         *)
(***************************************************************************)
Code ==
  [c \in {".", "/", "a", "b", "c", "d", "f", "g", "i", "o", "p", "r", "s",
          "t", "v", "x", "y"} |->
     CASE c = "." -> 46 [] c = "/" -> 47 [] c = "a" -> 97 [] c = "b" -> 98
       [] c = "c" -> 99 [] c = "d" -> 100 [] c = "f" -> 102 [] c = "g" -> 103
       [] c = "i" -> 105 [] c = "o" -> 111 [] c = "p" -> 112 [] c = "r" -> 114
       [] c = "s" -> 115 [] c = "t" -> 116 [] c = "v" -> 118 [] c = "x" -> 120
       [] c = "y" -> 121]

\* bytes.Compare(a, b) < 0
BytesLess(a, b) ==
  \/ \E i \in 1..Len(a) :
       /\ i <= Len(b)
       /\ \A j \in 1..(i - 1) : a[j] = b[j]
       /\ Code[a[i]] < Code[b[i]]
  \/ /\ Len(a) < Len(b)
     /\ \A j \in 1..Len(a) : a[j] = b[j]

\* bytes.HasPrefix / strings.HasPrefix
HasPrefix(s, prefix) ==
  /\ Len(prefix) <= Len(s)
  /\ SubSeq(s, 1, Len(prefix)) = prefix

\* strings.HasSuffix
HasSuffix(s, suffix) ==
  /\ Len(suffix) <= Len(s)
  /\ SubSeq(s, Len(s) - Len(suffix) + 1, Len(s)) = suffix

\* strings.TrimPrefix
TrimPrefix(s, prefix) ==
  IF HasPrefix(s, prefix) THEN SubSeq(s, Len(prefix) + 1, Len(s)) ELSE s

\* strings.Contains(s, "/")
ContainsSlash(s) == \E i \in 1..Len(s) : s[i] = "/"

\* The keys of a set in bbolt's (byte) order.
RECURSIVE SortedKeys(_)
SortedKeys(S) ==
  IF S = {} THEN <<>>
  ELSE LET k == CHOOSE x \in S : \A y \in S \ {x} : BytesLess(x, y)
       IN <<k>> \o SortedKeys(S \ {k})

(***************************************************************************)
(* metadb: the encoding of Attributes (src/unnamed/part_008)               *)
(***************************************************************************)
\* len(id) of the ids this program makes up itself
IdLen == 33

\* EmptyId: 33 zero bytes, "the file needs to be created on the remote"
EmptyId == [i \in 1..IdLen |-> 0]

\* GenerateId: 33 random bytes. The value the model lets it return; it is
\* never EmptyId.
GeneratedIds == {[i \in 1..IdLen |-> 17]}

\* n / 256^k, without a power that overflows
RECURSIVE ShiftBytes(_, _)
ShiftBytes(n, k) == IF k = 0 THEN n ELSE ShiftBytes(n \div 256, k - 1)

\* binary.Write(w, binary.LittleEndian, n) for an unsigned n of w bytes
LittleEndian(n, w) == [i \in 1..w |-> ShiftBytes(n, i - 1) % 256]

\* binary.Read(r, binary.LittleEndian, &n)
RECURSIVE FromLittleEndian(_)
FromLittleEndian(bs) ==
  IF bs = <<>> THEN 0 ELSE Head(bs) + 256 * FromLittleEndian(Tail(bs))

\* binary.Write of a bool: one byte, 1 or 0
BoolByte(v) == IF v THEN <<1>> ELSE <<0>>

\* writeAttributes_SwapBools: writeAttributes with its two bools exchanged
writeAttributes_SwapBools(attributes) ==
  LittleEndian(Len(attributes.Id), 4) \o attributes.Id
    \o LittleEndian(attributes.Size, 8)
    \o BoolByte(attributes.HasContent)
    \o LittleEndian(attributes.Mode, 4)
    \o BoolByte(attributes.IsRegularFile)

\* writeAttributes / serialiseAttributes
writeAttributes(attributes) ==
  LittleEndian(Len(attributes.Id), 4) \o attributes.Id
    \o LittleEndian(attributes.Size, 8)
    \o BoolByte(attributes.IsRegularFile)
    \o LittleEndian(attributes.Mode, 4)
    \o BoolByte(attributes.HasContent)

\* readAttributes, of bytes that hold a whole record
readAttributes(v) ==
  LET idlen == FromLittleEndian(SubSeq(v, 1, 4))
      rest  == SubSeq(v, 4 + idlen + 1, Len(v))
  IN [Id            |-> SubSeq(v, 5, 4 + idlen),
      Size          |-> FromLittleEndian(SubSeq(rest, 1, 8)),
      IsRegularFile |-> rest[9] # 0,
      Mode          |-> FromLittleEndian(SubSeq(rest, 10, 13)),
      HasContent    |-> rest[14] # 0]

(***************************************************************************)
(* metadb.DB on the paths bucket. Every operation is one bbolt             *)
(* transaction and returns the error and, for an Update, the bucket after  *)
(* the commit (a transaction that returns an error is rolled back).        *)
(***************************************************************************)
\* Bucket.Get: nil for a key that is absent (and for the empty key)
BucketHas(b, k) == k \in DOMAIN b

\* DB.GetAttributes
GetAttributes(b, path) ==
  IF ~BucketHas(b, path)
    THEN [err |-> "DoesNotExist"]
    ELSE [err |-> "nil", attributes |-> readAttributes(b[path])]

\* DB.SetAttributes; Bucket.Put refuses the empty key
SetAttributes(b, path, attributes) ==
  IF path = <<>>
    THEN [err |-> "KeyRequired", db |-> b]
    ELSE [err |-> "nil", db |-> MapPut(b, path, writeAttributes(attributes))]

\* DB.GetAndDeleteAttributes
GetAndDeleteAttributes(b, path) ==
  IF ~BucketHas(b, path)
    THEN [err |-> "DoesNotExist", db |-> b]
    ELSE [err |-> "nil", db |-> MapDelete(b, path),
          attributes |-> readAttributes(b[path])]

\* The keys a cursor visits from Seek(prefix) while bytes.HasPrefix holds.
PrefixScan(b, prefix) ==
  SortedKeys({k \in DOMAIN b : HasPrefix(k, prefix)})

\* DB.List, the loop body for the keys the cursor visits
RECURSIVE ListEntries(_, _, _)
ListEntries(b, path, ks) ==
  IF ks = <<>> THEN <<>>
  ELSE LET k == Head(ks)
           relativePath == TrimPrefix(TrimPrefix(k, path), <<"/">>)
       IN IF k = path \/ ContainsSlash(relativePath)
            THEN ListEntries(b, path, Tail(ks))
            ELSE <<[Path |-> relativePath, Attributes |-> readAttributes(b[k])]>>
                   \o ListEntries(b, path, Tail(ks))

\* A List for which any key the cursor visits makes the directory exist.
List_PrefixExists(b, path) ==
  LET exists == path = <<>> \/ PrefixScan(b, path) # <<>>
  IN [entries |-> ListEntries(b, path, PrefixScan(b, path)),
      err |-> IF exists THEN "nil" ELSE "DoesNotExist"]

\* DB.List
List(b, path) ==
  LET exists == path = <<>> \/ BucketHas(b, path)
  IN [entries |-> ListEntries(b, path, PrefixScan(b, path)),
      err |-> IF exists THEN "nil" ELSE "DoesNotExist"]

\* DB.IsDirectoryEmpty
IsDirectoryEmpty(b, path) ==
  [empty |-> Len(List(b, path).entries) = 0, err |-> List(b, path).err]

\* DB.Rename, the loop. The cursor was positioned before the first Put, so it
\* walks the leaf page as it was when the transaction began (ks and snap),
\* while Put and Delete change the bucket cur. A Put of the empty key fails.
RECURSIVE RenameLoop(_, _, _, _, _)
RenameLoop(cur, snap, ks, prefix, newPrefix) ==
  IF ks = <<>> THEN [err |-> "nil", db |-> cur]
  ELSE LET k == Head(ks)
           newKey == newPrefix \o SubSeq(k, Len(prefix) + 1, Len(k))
       IN IF newKey = <<>>
            THEN [err |-> "KeyRequired", db |-> snap]
            ELSE RenameLoop(MapDelete(MapPut(cur, newKey, snap[k]), k),
                            snap, Tail(ks), prefix, newPrefix)

\* A Rename that does not look for a record at the new name.
Rename_NoExistsCheck(b, oldName, newName) ==
  IF ~BucketHas(b, oldName) THEN [err |-> "DoesNotExist", db |-> b]
  ELSE RenameLoop(b, b, PrefixScan(b, oldName), oldName, newName)

\* DB.Rename
Rename(b, oldName, newName) ==
  IF ~BucketHas(b, oldName) THEN [err |-> "DoesNotExist", db |-> b]
  ELSE IF BucketHas(b, newName) THEN [err |-> "AlreadyExists", db |-> b]
  ELSE RenameLoop(b, b, PrefixScan(b, oldName), oldName, newName)

\* DB.SetSize
SetSize(b, path, size) ==
  IF ~BucketHas(b, path) THEN [err |-> "DoesNotExist", db |-> b]
  ELSE [err |-> "nil",
        db |-> MapPut(b, path,
                 writeAttributes([readAttributes(b[path]) EXCEPT !.Size = size]))]

\* DB.SetId
SetId(b, path, id) ==
  IF ~BucketHas(b, path) THEN [err |-> "DoesNotExist", db |-> b]
  ELSE [err |-> "nil",
        db |-> MapPut(b, path,
                 writeAttributes([readAttributes(b[path]) EXCEPT !.Id = id]))]

\* DB.SetMode
SetMode(b, path, mode) ==
  IF ~BucketHas(b, path) THEN [err |-> "DoesNotExist", db |-> b]
  ELSE [err |-> "nil",
        db |-> MapPut(b, path,
                 writeAttributes([readAttributes(b[path]) EXCEPT !.Mode = mode]))]

(***************************************************************************)
(* The remote (Google Drive), as DriveApi sees it. An object keeps its id  *)
(* for ever: a deleted object stays in the map, marked not live.           *)
(***************************************************************************)
\* The id Drive gives its n-th object: "R1", "R2", ...
RemoteId(n) == <<82, 48 + n>>

\* DriveApi.Create: the new id, or "" and an error
RemoteCreate(rem, data, ok) ==
  IF ok
    THEN [err |-> "nil", id |-> RemoteId(Cardinality(DOMAIN rem) + 1),
          remote |-> MapPut(rem, RemoteId(Cardinality(DOMAIN rem) + 1),
                            [data |-> data, live |-> TRUE])]
    ELSE [err |-> "error", id |-> <<>>, remote |-> rem]

\* Whether the remote holds a live object under this id.
RemoteHas(rem, id) == id \in DOMAIN rem /\ rem[id].live

\* DriveApi.Update: an id the remote does not hold is a 404
RemoteUpdate(rem, id, data, ok) ==
  IF ok /\ RemoteHas(rem, id)
    THEN [err |-> "nil", remote |-> [rem EXCEPT ![id].data = data]]
    ELSE [err |-> "error", remote |-> rem]

\* Service.Files.Delete(id).Do()
RemoteDelete(rem, id, ok) ==
  IF ok /\ RemoteHas(rem, id)
    THEN [err |-> "nil", remote |-> [rem EXCEPT ![id].live = FALSE]]
    ELSE [err |-> "error", remote |-> rem]

(***************************************************************************)
(* LocalFileCache (src/unnamed/part_008, lines 733-967): what its methods  *)
(* do to the files map and to the refcountedFile objects. The section a    *)
(* method runs under filesMu is one step.                                  *)
(***************************************************************************)
\* Open, lines 818-851: the first reference makes the local file, a later one
\* bumps the count; the FileReference wraps info.file.
CacheOpen(fl, heap, name, id, isReader) ==
  IF name \in DOMAIN fl
    THEN [files |-> fl,
          rfs |-> [heap EXCEPT ![fl[name]].count = @ + 1],
          ref |-> [name |-> name, file |-> fl[name], isReader |-> isReader]]
    ELSE [files |-> MapPut(fl, name, NewAddr(heap)),
          rfs |-> MapPut(heap, NewAddr(heap),
                    [name |-> name, id |-> id, count |-> 1, dirty |-> FALSE,
                     fetched |-> FALSE, open |-> TRUE, data |-> <<>>,
                     pos |-> 0]),
          ref |-> [name |-> name, file |-> NewAddr(heap), isReader |-> isReader]]

\* Release, lines 875-889: count--, and at zero the entry leaves the map.
\* The caller keeps the pointer refs.
CacheDeref(fl, heap, name) ==
  [refs |-> fl[name],
   rfs |-> [heap EXCEPT ![fl[name]].count = @ - 1],
   files |-> IF heap[fl[name]].count - 1 = 0 THEN MapDelete(fl, name) ELSE fl]

\* Release, lines 926-939: at count zero the local file is closed and removed
CacheRemove(heap, refs) ==
  IF heap[refs].count = 0 THEN [heap EXCEPT ![refs].open = FALSE] ELSE heap

\* The refcountedFile objects something still refers to: the files map, the
\* FileReferences, and the pointers the running calls hold.
Referred(fl, hs, held) ==
  MapValues(fl) \cup {h.file : h \in BagToSet(hs)} \cup held

(***************************************************************************)
(* The handlers of the FUSE server (src/drive_filesystem.go, part_000,     *)
(* part_008, drive_file.go). go-fuse runs every upcall on a goroutine of   *)
(* its own, so the handlers run side by side. A handler that makes one     *)
(* transaction of the database (or one system call) and returns is one     *)
(* step. A handler that makes several, or waits for a lock or for the      *)
(* remote, is run by a thread t step by step: call[t] holds its arguments  *)
(* and locals and the place it has reached, and every step is one          *)
(* transaction, one section under a mutex, or one remote request. last is  *)
(* what the step just taken returned to the kernel: NoCall when it was a   *)
(* step inside a handler.                                                  *)
(***************************************************************************)
\* The paths the upcalls of SpecMeta name.
Paths == {<<"a">>, <<"a", "/", "x">>, <<"a", "b">>, <<"a", "b", "/", "x">>}

\* The mode argument of Mkdir: 0755.
DirModes == {493}

\* The mode argument of Create: 0644.
FileModes == {420}

\* The mode argument of Chmod: 0600.
ChmodModes == {384}

\* Create stores a file of this name in the database
InlineSuffix ==
  <<"g", "o", "c", "r", "y", "p", "t", "f", "s", ".", "d", "i", "r", "i", "v">>

S_IFREG == 32768

S_IFDIR == 16384

\* The paths Create and Unlink are called with: a gocryptfs.diriv as well.
FilePaths == Paths \cup {InlineSuffix}

\* a | b on unsigned integers
RECURSIVE BitOr(_, _)
BitOr(a, b) ==
  IF a = 0 THEN b
  ELSE IF b = 0 THEN a
  ELSE (IF a % 2 = 1 \/ b % 2 = 1 THEN 1 ELSE 0) + 2 * BitOr(a \div 2, b \div 2)

\* No answer to the kernel.
NoCall ==
  [op |-> "none", a |-> <<>>, b |-> <<>>, status |-> "OK", err |-> "nil",
   out |-> <<>>]

Returned(op, a, b, status, err, out) ==
  [op |-> op, a |-> a, b |-> b, status |-> status, err |-> err, out |-> out]

\* The bucket has room for a record at path.
HasRoom(path) == path \in DOMAIN db \/ Cardinality(DOMAIN db) < MaxRecords

\* A nil *FileReference.
NoRef == [name |-> <<>>, file |-> NoObj, isReader |-> FALSE]

\* Attributes{}, the zero value
NoAttributes ==
  [Id |-> <<>>, Size |-> 0, Mode |-> 0, IsRegularFile |-> FALSE,
   HasContent |-> FALSE]

\* A thread that is in no handler.
\* The remote method a Release has called, and the id it gave to it.
NoSent == [method |-> "none", id |-> <<>>]

NoCacheCall ==
  [op |-> "none", stage |-> "idle", name |-> <<>>, mode |-> 0, id |-> <<>>,
   attributes |-> NoAttributes, isReader |-> FALSE, ref |-> NoRef,
   refs |-> NoObj, calls |-> 0, attempts |-> 0, newid |-> <<>>,
   size |-> 0, file |-> NoObj, data |-> <<>>, off |-> 0, content |-> <<>>,
   err |-> "nil", sent |-> NoSent, body |-> <<>>]

\* The pointers to refcountedFile objects the running calls hold.
HeldRefs(c) ==
  ({c[t].refs : t \in Threads} \cup {c[t].ref.file : t \in Threads}) \ {NoObj}

\* A thread that is in no handler takes an upcall.
Enter(t) ==
  /\ ~Crashed
  /\ call[t].op = "none"

\* The handler of thread t is at this stage of this method.
At(t, ops, stage) ==
  /\ ~Crashed
  /\ call[t].op \in ops
  /\ call[t].stage = stage

\* The handler of thread t returns to the kernel.
Return(t, b, status, err, out) ==
  /\ last' = Returned(call[t].op, call[t].name, b, status, err, out)
  /\ call' = [call EXCEPT ![t] = NoCacheCall]

\* DriveFileSystem.Mkdir
FsMkdir(name, mode, id) ==
  LET r == SetAttributes(db, name,
             [Id |-> id, Size |-> 0, Mode |-> mode, IsRegularFile |-> FALSE,
              HasContent |-> FALSE])
  IN /\ ~Crashed
     /\ HasRoom(name)
     /\ db' = r.db
     /\ last' = Returned("mkdir", name, <<>>,
                         IF r.err # "nil" THEN "EIO" ELSE "OK", r.err, <<>>)
     /\ UNCHANGED <<mutexVars, remote, cacheVars, inlineVars>>

\* DriveFileSystem.Rename
FsRename(oldName, newName) ==
  LET r == Rename(db, oldName, newName)
  IN /\ ~Crashed
     /\ db' = r.db
     /\ last' = Returned("rename", oldName, newName,
                   CASE r.err = "DoesNotExist" -> "ENOENT"
                     [] r.err = "AlreadyExists" -> "EINVAL"
                     [] r.err = "nil" -> "OK"
                     [] OTHER -> "EIO",
                   r.err, <<>>)
     /\ UNCHANGED <<mutexVars, remote, cacheVars, inlineVars>>

\* DriveFileSystem.OpenDir, the DirEntry of one Entry
DirEntry(entry) ==
  [Name |-> entry.Path,
   Mode |-> BitOr(IF entry.Attributes.IsRegularFile THEN S_IFREG ELSE S_IFDIR,
                  entry.Attributes.Mode)]

\* DriveFileSystem.OpenDir
FsOpenDir(name) ==
  LET l == List(db, name)
  IN /\ ~Crashed
     /\ last' = IF l.err # "nil"
                  THEN Returned("opendir", name, <<>>, "EIO", l.err, <<>>)
                  ELSE Returned("opendir", name, <<>>, "OK", l.err,
                         [i \in 1..Len(l.entries) |-> DirEntry(l.entries[i])])
     /\ UNCHANGED <<mutexVars, db, remote, cacheVars, inlineVars>>

\* DriveFileSystem.Chmod
FsChmod(name, mode) ==
  LET r == SetMode(db, name, mode)
  IN /\ ~Crashed
     /\ db' = r.db
     /\ last' = Returned("chmod", name, <<mode>>,
                   CASE r.err = "DoesNotExist" -> "ENOENT"
                     [] r.err = "nil" -> "OK"
                     [] OTHER -> "EIO",
                   r.err, <<>>)
     /\ UNCHANGED <<mutexVars, remote, cacheVars, inlineVars>>

(***************************************************************************)
(* DriveFileSystem.Create and DriveFileSystem.Open                         *)
(***************************************************************************)
\* A Create that does not look whether the file is there already.
CreateCall_NoCheck(t, name, mode, id) ==
  /\ Enter(t)
  /\ call' = [call EXCEPT ![t] =
                [NoCacheCall EXCEPT !.op = "create", !.stage = "insert",
                                    !.name = name, !.mode = mode, !.id = id]]
  /\ last' = NoCall /\ UNCHANGED <<mutexVars, db, remote, files, rfs, handles, inlineVars>>

\* Create, lines 416-420: GetAttributes; the file must not exist yet. id is
\* what GenerateId will return.
CreateCall(t, name, mode, id) ==
  /\ Enter(t)
  /\ IF GetAttributes(db, name).err # "DoesNotExist"
       THEN /\ last' = Returned("create", name, <<>>, "EINVAL",
                                GetAttributes(db, name).err, "nil")
            /\ UNCHANGED call
       ELSE /\ call' = [call EXCEPT ![t] =
                          [NoCacheCall EXCEPT !.op = "create",
                                              !.stage = "insert", !.name = name,
                                              !.mode = mode, !.id = id]]
            /\ last' = NoCall
  /\ UNCHANGED <<mutexVars, db, remote, files, rfs, handles, inlineVars>>

\* Create, lines 423-451: SetAttributes. An inline file goes on to fs.Open
\* (line 438), another one to localFileCache.Open(name, EmptyId, false).
CreateInsert(t) ==
  LET c == call[t]
      inline == HasSuffix(c.name, InlineSuffix)
      r == SetAttributes(db, c.name,
             [Id |-> IF inline THEN c.id ELSE EmptyId, Size |-> 0,
              Mode |-> c.mode, IsRegularFile |-> TRUE, HasContent |-> inline])
  IN /\ At(t, {"create"}, "insert")
     /\ IF r.err # "nil"
          THEN /\ Return(t, <<>>, "EIO", r.err, "nil")
               /\ UNCHANGED db
          ELSE /\ db' = r.db
               /\ call' = [call EXCEPT ![t].stage = IF inline THEN "lookup"
                                                    ELSE "lock",
                                       ![t].id = EmptyId]
               /\ last' = NoCall
     /\ UNCHANGED <<mutexVars, remote, files, rfs, handles, inlineVars>>

\* DriveFileSystem.Open is called.
OpenCall(t, name, readOnly) ==
  /\ Enter(t)
  /\ call' = [call EXCEPT ![t] =
                [NoCacheCall EXCEPT !.op = "open", !.stage = "lookup",
                                    !.name = name, !.isReader = readOnly]]
  /\ last' = NoCall /\ UNCHANGED <<mutexVars, db, remote, files, rfs, handles, inlineVars>>

\* NewDbFile: a DbFile of its own for every Open
NewDbFile(name) == [name |-> name, writeLock |-> NoThread, wrote |-> <<>>]

\* Open, lines 337-356: GetAttributes; a file with content is a DbFile, any
\* other goes on to localFileCache.Open(name, attributes.Id, readOnly).
OpenLookup(t) ==
  LET c == call[t]
      g == GetAttributes(db, c.name)
  IN /\ At(t, {"open", "create"}, "lookup")
     /\ IF g.err = "DoesNotExist"
          THEN /\ Return(t, <<>>, "ENOENT", g.err, "nil")
               /\ UNCHANGED dbfiles
          ELSE IF g.err # "nil"
            THEN /\ Return(t, <<>>, "ENODATA", g.err, "nil")
                 /\ UNCHANGED dbfiles
            ELSE IF g.attributes.HasContent
              THEN /\ Return(t, <<>>, "OK", "nil", "DbFile")
                   /\ dbfiles' = MapPut(dbfiles, NewAddr(dbfiles),
                                        NewDbFile(c.name))
              ELSE /\ call' = [call EXCEPT ![t].stage = "lock",
                                           ![t].id = g.attributes.Id]
                   /\ last' = NoCall /\ UNCHANGED dbfiles
     /\ UNCHANGED <<mutexVars, db, remote, files, rfs, handles, contentBucket>>

(***************************************************************************)
(* LocalFileCache.Open and LocalFileCache.Release. A call takes the lock   *)
(* of its name with the steps of KeyedMutex.Lock, runs its body, and gives *)
(* the lock back with the steps of KeyedMutex.Unlock.                      *)
(***************************************************************************)
\* The FileReferences equal to h that a Write or an EnsureLocal is using.
InUse(h) ==
  Cardinality({t \in Threads :
                 call[t].op \in {"write", "ensure"} /\ call[t].ref = h})

\* Nobody holds filesMu. Open, MarkDirty and Release hold it for one step;
\* EnsureLocal holds it from its look at the files map to its return, the
\* requests of api.ReadAll included.
FilesMuFree ==
  \A t \in Threads :
    ~(call[t].op = "ensure" /\ call[t].stage \in {"fetch", "copy"})

\* FileReference.Release: the kernel gives back a FileReference that no
\* other upcall is using.
ReleaseCall(t, h) ==
  /\ Enter(t)
  /\ BagIn(h, handles)
  /\ CopiesIn(h, handles) > InUse(h)
  /\ handles' = handles (-) SetToBag({h})
  /\ call' = [call EXCEPT ![t] = [NoCacheCall EXCEPT !.op = "release",
                !.stage = "lock", !.name = h.name, !.ref = h]]
  /\ last' = NoCall /\ UNCHANGED <<mutexVars, db, remote, files, rfs, inlineVars>>

\* c.locks.Lock(name), its first step
CacheLock(t) ==
  /\ call[t].stage = "lock"
  /\ LockMapAcquire(t, call[t].name)
  /\ call' = [call EXCEPT ![t].stage = "body"]
  /\ last' = NoCall /\ UNCHANGED <<db, remote, files, rfs, handles, inlineVars>>

\* LocalFileCache.Open_NoLock: the body of Open run without the lock of name.
OpenBody_NoLock(t, tempOk) ==
  LET o == CacheOpen(files, rfs, call[t].name, call[t].id, call[t].isReader)
  IN /\ ~Crashed
     /\ call[t].op \in {"open", "create"}
     /\ call[t].stage \in {"lock", "body"}
     /\ pc[t] \in {"idle", "held"}
     /\ FilesMuFree
     /\ tempOk
     /\ files' = o.files
     /\ rfs' = o.rfs
     /\ call' = [call EXCEPT ![t].stage = IF pc[t] = "held" THEN "unlock"
                                           ELSE "unlocking",
                             ![t].ref = o.ref]
     /\ last' = NoCall /\ UNCHANGED <<mutexVars, db, remote, handles, inlineVars>>

\* LocalFileCache.Open, lines 815-851, under filesMu. When the name has no
\* entry and ioutil.TempFile fails (tempOk is false), Open returns nil.
OpenBody(t, tempOk) ==
  LET o == CacheOpen(files, rfs, call[t].name, call[t].id, call[t].isReader)
  IN /\ At(t, {"open", "create"}, "body")
     /\ pc[t] = "held"
     /\ FilesMuFree
     /\ IF call[t].name \notin DOMAIN files /\ ~tempOk
          THEN /\ call' = [call EXCEPT ![t].stage = "unlock", ![t].ref = NoRef]
               /\ UNCHANGED <<files, rfs>>
          ELSE /\ files' = o.files
               /\ rfs' = o.rfs
               /\ call' = [call EXCEPT ![t].stage = "unlock", ![t].ref = o.ref]
     /\ last' = NoCall /\ UNCHANGED <<mutexVars, db, remote, handles, inlineVars>>

\* LocalFileCache.Release, lines 874-889, under filesMu
ReleaseDeref(t) ==
  /\ At(t, {"release"}, "body")
  /\ pc[t] = "held"
  /\ FilesMuFree
  /\ IF call[t].name \notin DOMAIN files
       THEN /\ pc' = [pc EXCEPT ![t] = "panic"]
            /\ UNCHANGED <<mutexes, objs, mapMutex, key, mtx, files, rfs, call>>
       ELSE LET d == CacheDeref(files, rfs, call[t].name)
            IN /\ files' = d.files
               /\ rfs' = d.rfs
               /\ call' = [call EXCEPT ![t].stage = "dirty", ![t].refs = d.refs]
               /\ UNCHANGED mutexVars
  /\ last' = NoCall /\ UNCHANGED <<db, remote, handles, inlineVars>>

\* Release, lines 891-897: a file that is not dirty is not uploaded; for a
\* dirty one refs.file.Seek(0, 0) puts the offset of the file at its start
\* (and fails, with nothing but a line in the log, on a file that is closed).
ReleaseCheck(t) ==
  LET rf == rfs[call[t].refs]
  IN /\ At(t, {"release"}, "dirty")
     /\ call' = [call EXCEPT ![t].stage = IF rf.dirty THEN "attempt"
                                          ELSE "remove"]
     /\ rfs' = IF rf.dirty /\ rf.open
                 THEN [rfs EXCEPT ![call[t].refs].pos = 0]
                 ELSE rfs
     /\ last' = NoCall /\ UNCHANGED <<mutexVars, db, remote, files, handles, inlineVars>>

\* read and pread on a file that holds content: at most size bytes from
\* offset off
ReadAt(bytes, off, size) ==
  IF off >= Len(bytes) THEN <<>>
  ELSE SubSeq(bytes, off + 1,
              IF off + size < Len(bytes) THEN off + size ELSE Len(bytes))

\* The bytes of a file from its offset to its end.
Rest(data, pos) == SubSeq(data, pos + 1, Len(data))

\* Release that calls api.Update whatever refs.id is
ReleaseAttempt_AlwaysUpdate(t) ==
  LET c == call[t]
      rf == rfs[c.refs]
      creating == FALSE
      sent == [method |-> IF creating THEN "create" ELSE "update", id |-> rf.id]
  IN /\ At(t, {"release"}, "attempt")
     /\ call' = [call EXCEPT ![t].stage = "send",
                             ![t].attempts = @ + 1,
                             ![t].sent = sent,
                             ![t].body = <<>>]
     /\ last' = NoCall
     /\ UNCHANGED <<mutexVars, db, remote, files, rfs, handles, inlineVars>>

\* Release, lines 899-916: an attempt of api.Create(refs.file) or of
\* api.Update(refs.id, refs.file) inside backoff.Retry begins: the request
\* is made with refs.file as its body. No attempt puts the offset of the
\* file back.
ReleaseAttempt(t) ==
  LET c == call[t]
      rf == rfs[c.refs]
      creating == rf.id = EmptyId
      sent == [method |-> IF creating THEN "create" ELSE "update", id |-> rf.id]
  IN /\ At(t, {"release"}, "attempt")
     /\ call' = [call EXCEPT ![t].stage = "send",
                             ![t].attempts = @ + 1,
                             ![t].sent = sent,
                             ![t].body = <<>>]
     /\ last' = NoCall
     /\ UNCHANGED <<mutexVars, db, remote, files, rfs, handles, inlineVars>>

\* The request reads its body: one Read of refs.file gives the next bytes
\* of the file from its offset, ChunkSize at most, and moves the offset; a
\* Read that gives none has met the end of the file, and the body is
\* complete. Between two Reads the file is open to the WriteAt and the
\* Truncate of the FileReferences of the file, which take no lock.
ReleaseRead(t) ==
  LET c == call[t]
      rf == rfs[c.refs]
      got == ReadAt(rf.data, rf.pos, ChunkSize)
  IN /\ At(t, {"release"}, "send")
     /\ rf.open
     /\ rfs' = [rfs EXCEPT ![c.refs].pos = @ + Len(got)]
     /\ call' = [call EXCEPT ![t].body = @ \o got,
                             ![t].stage = IF got = <<>> THEN "answer"
                                          ELSE "send"]
     /\ last' = NoCall
     /\ UNCHANGED <<mutexVars, db, remote, files, handles, inlineVars>>

\* The attempt ends. The remote answers a request whose body is complete:
\* the body it got is the content of the new object of Create, or of the
\* object of Update. An attempt may fail at any point (answered is false),
\* with what it has read of the file gone; it is followed by another
\* attempt (again) unless the error is permanent or the time is up.
ReleaseAnswer(t, answered, again) ==
  LET c == call[t]
      creating == c.sent.method = "create"
      r == IF creating THEN RemoteCreate(remote, c.body, answered)
           ELSE [id |-> <<>>] @@ RemoteUpdate(remote, c.sent.id, c.body, answered)
      retry == again /\ c.attempts < MaxAttempts
  IN /\ At(t, {"release"}, "send") \/ At(t, {"release"}, "answer")
     /\ answered => c.stage = "answer"
     /\ IF r.err = "nil"
          THEN /\ remote' = r.remote
               /\ call' = [call EXCEPT ![t].stage = IF creating THEN "setid"
                                                    ELSE "stat",
                                       ![t].calls = @ + 1,
                                       ![t].newid = r.id,
                                       ![t].body = <<>>]
          ELSE /\ UNCHANGED remote
               /\ call' = [call EXCEPT
                    ![t].stage = IF retry THEN "attempt"
                                 ELSE IF creating THEN "setid" ELSE "stat",
                    ![t].calls = IF retry THEN @ ELSE @ + 1,
                    ![t].newid = <<>>,
                    ![t].body = <<>>]
     /\ last' = NoCall
     /\ UNCHANGED <<mutexVars, db, files, rfs, handles, inlineVars>>

\* Release, lines 905-908: SetId with what Create returned, "" after an error
ReleaseSetId(t) ==
  /\ At(t, {"release"}, "setid")
  /\ db' = SetId(db, call[t].name, call[t].newid).db
  /\ call' = [call EXCEPT ![t].stage = "stat"]
  /\ last' = NoCall /\ UNCHANGED <<mutexVars, remote, files, rfs, handles, inlineVars>>

\* Release, line 919: refs.file.Stat()
ReleaseStat(t) ==
  /\ At(t, {"release"}, "stat")
  /\ call' = [call EXCEPT ![t].stage = "setsize",
                          ![t].size = Len(rfs[call[t].refs].data)]
  /\ last' = NoCall /\ UNCHANGED <<mutexVars, db, remote, files, rfs, handles, inlineVars>>

\* Release, lines 920-923: SetSize
ReleaseSetSize(t) ==
  /\ At(t, {"release"}, "setsize")
  /\ db' = SetSize(db, call[t].name, call[t].size).db
  /\ call' = [call EXCEPT ![t].stage = "remove"]
  /\ last' = NoCall /\ UNCHANGED <<mutexVars, remote, files, rfs, handles, inlineVars>>

\* LocalFileCache.Release, lines 926-939
ReleaseRemove(t) ==
  /\ At(t, {"release"}, "remove")
  /\ rfs' = CacheRemove(rfs, call[t].refs)
  /\ call' = [call EXCEPT ![t].stage = "unlock"]
  /\ last' = NoCall /\ UNCHANGED <<mutexVars, db, remote, files, handles, inlineVars>>

\* the deferred c.locks.Unlock(name), its first step
CacheUnlock(t) ==
  /\ call[t].stage = "unlock"
  /\ UnlockMapAcquire(t)
  /\ call' = [call EXCEPT ![t].stage = "unlocking"]
  /\ last' = NoCall /\ UNCHANGED <<db, remote, files, rfs, handles, inlineVars>>

\* The call returns. Open hands its FileReference to the kernel with the
\* status OK, also when the FileReference is nil. EnsureLocal returns its
\* error to its caller.
CacheReturn(t) ==
  LET c == call[t]
  IN /\ At(t, {"open", "create", "release", "ensure"}, "unlocking")
     /\ pc[t] = "idle"
     /\ handles' = IF c.op \in {"open", "create"} /\ c.ref # NoRef
                     THEN handles (+) SetToBag({c.ref}) ELSE handles
     /\ Return(t, <<>>, "OK", c.err,
               IF c.op \in {"release", "ensure"} THEN c.calls
               ELSE IF c.ref = NoRef THEN "nil" ELSE "FileReference")
     /\ rfs' = Collect(rfs, Referred(files, handles', HeldRefs(call')))
     /\ UNCHANGED <<mutexVars, db, remote, files, inlineVars>>

(***************************************************************************)
(* DriveFileSystem.Unlink and DriveFileSystem.Rmdir                        *)
(***************************************************************************)
\* Unlink, lines 461-469: GetAndDeleteAttributes
UnlinkCall(t, name) ==
  LET r == GetAndDeleteAttributes(db, name)
  IN /\ Enter(t)
     /\ IF r.err = "DoesNotExist"
          THEN /\ last' = Returned("unlink", name, <<>>, "ENOENT", r.err, <<>>)
               /\ UNCHANGED <<db, call>>
          ELSE /\ db' = r.db
               /\ call' = [call EXCEPT ![t] =
                             [NoCacheCall EXCEPT !.op = "unlink",
                                                 !.stage = "delete",
                                                 !.name = name,
                                                 !.attributes = r.attributes]]
               /\ last' = NoCall
     /\ UNCHANGED <<mutexVars, remote, files, rfs, handles, inlineVars>>

\* Unlink, lines 471-477: Service.Files.Delete(attributes.Id).Do(), once
UnlinkDelete(t, ok) ==
  LET d == RemoteDelete(remote, call[t].attributes.Id, ok)
  IN /\ At(t, {"unlink"}, "delete")
     /\ remote' = d.remote
     /\ Return(t, <<>>, IF d.err # "nil" THEN "EIO" ELSE "OK", d.err,
               <<call[t].attributes.Id>>)
     /\ UNCHANGED <<mutexVars, db, files, rfs, handles, inlineVars>>

\* Rmdir, lines 483-490: IsDirectoryEmpty
RmdirCall(t, name) ==
  LET e == IsDirectoryEmpty(db, name)
  IN /\ Enter(t)
     /\ IF e.err = "DoesNotExist"
          THEN /\ last' = Returned("rmdir", name, <<>>, "ENOENT", e.err, <<>>)
               /\ UNCHANGED call
          ELSE IF ~e.empty
            THEN /\ last' = Returned("rmdir", name, <<>>, "ENOTEMPTY", e.err, <<>>)
                 /\ UNCHANGED call
            ELSE /\ call' = [call EXCEPT ![t] =
                               [NoCacheCall EXCEPT !.op = "rmdir",
                                                   !.stage = "delete",
                                                   !.name = name]]
                 /\ last' = NoCall
     /\ UNCHANGED <<mutexVars, db, remote, files, rfs, handles, inlineVars>>

\* Rmdir, lines 492-503: GetAndDeleteAttributes, and then the look at what
\* was deleted
RmdirDelete(t) ==
  LET r == GetAndDeleteAttributes(db, call[t].name)
  IN /\ At(t, {"rmdir"}, "delete")
     /\ db' = r.db
     /\ Return(t, <<>>,
               IF r.err = "nil" /\ r.attributes.IsRegularFile THEN "ENOTDIR"
               ELSE IF r.err # "nil" THEN "EIO" ELSE "OK",
               r.err, <<>>)
     /\ UNCHANGED <<mutexVars, remote, files, rfs, handles, inlineVars>>

(***************************************************************************)
(* FileReference (src/unnamed/part_000): the file of a working copy        *)
(***************************************************************************)
\* os.File.WriteAt on a file that holds content
WriteAt(content, data, off) ==
  [i \in 1..(IF Len(content) > off + Len(data) THEN Len(content)
             ELSE off + Len(data)) |->
     IF i > off /\ i <= off + Len(data) THEN data[i - off]
     ELSE IF i <= Len(content) THEN content[i] ELSE 0]

\* The bytes the kernel writes.
Blocks == {<<7>>}

\* The bytes the kernel writes through a DbFile of SpecWrite.
WriteBlocks == {<<7>>, <<8>>}

\* FileReference.Write, lines 105-109: EPERM for a reader; MarkDirty, under
\* filesMu, panics when the name has no entry.
WriteCall(t, h, data, off) ==
  /\ Enter(t)
  /\ BagIn(h, handles)
  /\ h.isReader \/ FilesMuFree
  /\ IF h.isReader
       THEN /\ last' = Returned("write", h.name, <<off>>, "EPERM", "nil", 0)
            /\ UNCHANGED <<mutexVars, rfs, call>>
       ELSE IF h.name \notin DOMAIN files
         THEN /\ pc' = [pc EXCEPT ![t] = "panic"]
              /\ last' = NoCall /\ UNCHANGED <<mutexes, objs, mapMutex, key, mtx, rfs, call>>
         ELSE /\ rfs' = [rfs EXCEPT ![files[h.name]].dirty = TRUE]
              /\ call' = [call EXCEPT ![t] =
                            [NoCacheCall EXCEPT !.op = "write",
                                                !.stage = "writeat",
                                                !.name = h.name, !.ref = h,
                                                !.data = data, !.off = off]]
              /\ last' = NoCall /\ UNCHANGED mutexVars
  /\ UNCHANGED <<db, remote, files, handles, inlineVars>>

\* FileReference.Write, lines 110-111: f.file.WriteAt(data, off). On a file
\* that was closed WriteAt gives a PathError around os.ErrClosed, which is
\* no Errno: fuse.ToStatus makes ENOSYS of it.
WriteAtStep(t) ==
  LET c == call[t]
  IN /\ At(t, {"write"}, "writeat")
     /\ IF rfs[c.ref.file].open
          THEN /\ rfs' = [rfs EXCEPT ![c.ref.file].data = WriteAt(@, c.data, c.off)]
               /\ Return(t, <<c.off>>, "OK", "nil", Len(c.data))
          ELSE /\ UNCHANGED rfs
               /\ Return(t, <<c.off>>, "ENOSYS", "ErrClosed", 0)
     /\ UNCHANGED <<mutexVars, db, remote, files, handles, inlineVars>>

\* FileReference.Truncate: ftruncate on the local file, and nothing else
FileTruncate(h, size) ==
  /\ ~Crashed
  /\ BagIn(h, handles)
  /\ rfs[h.file].open
  /\ rfs' = [rfs EXCEPT ![h.file].data =
                [i \in 1..size |-> IF i <= Len(@) THEN @[i] ELSE 0]]
  /\ last' = Returned("truncate", h.name, <<size>>, "OK", "nil", <<>>)
  /\ UNCHANGED <<mutexVars, db, remote, files, handles, call, inlineVars>>

\* FileReference.Read: the bytes of the local file behind the reference
FileRead(h, off, size) ==
  /\ ~Crashed
  /\ BagIn(h, handles)
  /\ rfs[h.file].open
  /\ last' = Returned("read", h.name, <<off, size>>, "OK", "nil",
                      ReadAt(rfs[h.file].data, off, size))
  /\ UNCHANGED <<mutexVars, db, remote, cacheVars, inlineVars>>

\* FileReference.Chmod: any error of SetMode is EPERM
FileChmod(h, mode) ==
  LET r == SetMode(db, h.name, mode)
  IN /\ ~Crashed
     /\ BagIn(h, handles)
     /\ db' = r.db
     /\ last' = Returned("fchmod", h.name, <<mode>>,
                         IF r.err # "nil" THEN "EPERM" ELSE "OK", r.err, <<>>)
     /\ UNCHANGED <<mutexVars, remote, cacheVars, inlineVars>>

(***************************************************************************)
(* DbFile (src/drive_file.go, lines 232-376): the file whose bytes live in *)
(* the content bucket of the database. Every Open makes a DbFile of its    *)
(* own; writeLock is a field of the DbFile, so it keeps apart the Writes   *)
(* and Truncates of one DbFile only. GetFile, PutFile and SetSize are      *)
(* three transactions of the database.                                     *)
(***************************************************************************)
\* DB.GetFile: a copy of the value of the key, empty when the key is not there
GetFile(c, path) == IF path \in DOMAIN c THEN c[path] ELSE <<>>

\* DB.PutFile
PutFile(c, path, data) == MapPut(c, path, data)

\* DB.RemoveFile: the key leaves the content bucket. Nothing in the
\* repository calls it.
RemoveFile(path) ==
  /\ ~Crashed
  /\ contentBucket' = MapDelete(contentBucket, path)
  /\ last' = Returned("removefile", path, <<>>, "OK", "nil", <<>>)
  /\ UNCHANGED <<mutexVars, db, remote, cacheVars, dbfiles>>

\* DbFile.Read, served by thread t: content[off:], whatever len(buf) is.
\* When off is past the end the slice expression of line 274 panics:
\* nothing recovers it, the process ends and the kernel gets no answer.
DbRead(t, d, off) ==
  LET name == dbfiles[d].name
      content == GetFile(contentBucket, name)
  IN /\ Enter(t)
     /\ d \in DOMAIN dbfiles
     /\ IF off > Len(content)
          THEN /\ pc' = [pc EXCEPT ![t] = "panic"]
               /\ last' = NoCall
          ELSE /\ last' = Returned("dbread", name, <<off>>, "OK", "nil",
                                   SubSeq(content, off + 1, Len(content)))
               /\ UNCHANGED pc
     /\ UNCHANGED <<mutexes, objs, mapMutex, key, mtx, db, remote, cacheVars,
                    inlineVars>>

\* Write, lines 302-318: writeLock, GetFile, and the new content in memory
DbWriteCall(t, d, data, off) ==
  /\ Enter(t)
  /\ d \in DOMAIN dbfiles
  /\ dbfiles[d].writeLock = NoThread
  /\ dbfiles' = [dbfiles EXCEPT ![d].writeLock = t]
  /\ call' = [call EXCEPT ![t] =
                [NoCacheCall EXCEPT !.op = "dbwrite", !.stage = "put",
                   !.name = dbfiles[d].name, !.file = d, !.data = data,
                   !.off = off, !.size = Len(data),
                   !.content = WriteAt(GetFile(contentBucket, dbfiles[d].name),
                                       data, off)]]
  /\ last' = NoCall /\ UNCHANGED <<mutexVars, db, remote, files, rfs, handles, contentBucket>>

\* Truncate, lines 343-358: writeLock, GetFile, and content[:size]
DbTruncateCall(t, d, size) ==
  LET old == GetFile(contentBucket, dbfiles[d].name)
  IN /\ Enter(t)
     /\ d \in DOMAIN dbfiles
     /\ dbfiles[d].writeLock = NoThread
     /\ dbfiles' = [dbfiles EXCEPT ![d].writeLock = t]
     /\ call' = [call EXCEPT ![t] =
                   [NoCacheCall EXCEPT !.op = "dbtruncate", !.stage = "put",
                      !.name = dbfiles[d].name, !.file = d, !.off = size,
                      !.content = [i \in 1..size |->
                                     IF i <= Len(old) THEN old[i] ELSE 0]]]
     /\ last' = NoCall /\ UNCHANGED <<mutexVars, db, remote, files, rfs, handles, contentBucket>>

\* Write, line 321, and Truncate, line 360: PutFile
DbWritePut(t) ==
  /\ At(t, {"dbwrite", "dbtruncate"}, "put")
  /\ contentBucket' = PutFile(contentBucket, call[t].name, call[t].content)
  /\ call' = [call EXCEPT ![t].stage = "setsize"]
  /\ last' = NoCall /\ UNCHANGED <<mutexVars, db, remote, files, rfs, handles, dbfiles>>

\* The call is over: the deferred writeLock.Unlock().
DbUnlock(t) ==
  [dbfiles EXCEPT ![call[t].file].writeLock = NoThread,
                  ![call[t].file].wrote =
                     IF call[t].op = "dbwrite"
                       THEN <<[data |-> call[t].data, off |-> call[t].off]>>
                       ELSE @]

\* DbFile.Write and DbFile.Truncate that return without SetSize
DbWriteSetSize_NoSetSize(t) ==
  LET c == call[t]
  IN /\ At(t, {"dbwrite", "dbtruncate"}, "setsize")
     /\ db' = db
     /\ Return(t, <<c.off>>, "OK", "nil",
               IF c.op = "dbwrite" THEN c.size ELSE <<>>)
     /\ dbfiles' = DbUnlock(t)
     /\ UNCHANGED <<mutexVars, remote, files, rfs, handles, contentBucket>>

\* Write, lines 327-333, and Truncate, lines 366-374: SetSize, and the call
\* returns
DbWriteSetSize(t) ==
  LET c == call[t]
      z == SetSize(db, c.name, Len(c.content))
  IN /\ At(t, {"dbwrite", "dbtruncate"}, "setsize")
     /\ db' = z.db
     /\ IF z.err # "nil"
          THEN Return(t, <<c.off>>, "EIO", z.err,
                      IF c.op = "dbwrite" THEN 0 ELSE <<>>)
          ELSE Return(t, <<c.off>>, "OK", "nil",
                      IF c.op = "dbwrite" THEN c.size ELSE <<>>)
     /\ dbfiles' = DbUnlock(t)
     /\ UNCHANGED <<mutexVars, remote, files, rfs, handles, contentBucket>>

\* DbFile.Release: the kernel drops a DbFile that no upcall is using
DbRelease(d) ==
  /\ ~Crashed
  /\ d \in DOMAIN dbfiles
  /\ dbfiles[d].writeLock = NoThread
  /\ dbfiles' = MapDelete(dbfiles, d)
  /\ last' = Returned("dbrelease", dbfiles[d].name, <<>>, "OK", "nil", <<>>)
  /\ UNCHANGED <<mutexVars, db, remote, cacheVars, contentBucket>>


(***************************************************************************)
(* api.FileReader (src/api/file_reader.go): a sequential reader of one     *)
(* remote object of known length. An http response body is the bytes it    *)
(* has still to deliver.                                                   *)
(***************************************************************************)
Min(a, b) == IF a < b THEN a ELSE b

\* The objects a reader reads: byte i of an object is i.
Objects == {[i \in 1..n |-> i] : n \in 0..MaxLen}

NoBody == [open |-> FALSE, bytes |-> <<>>]

NoReader == [made |-> FALSE, position |-> 0, length |-> 0,
             httpResponse |-> NoBody, readSize |-> 0]

\* NewFileReader
NewFileReader(length, position, sequential) ==
  [made |-> TRUE, position |-> position, length |-> length,
   httpResponse |-> NoBody,
   readSize |-> IF sequential THEN SequentialReadSize ELSE RandomReadSize]

\* What the remote answers to Range: bytes=startRange-endRange, both ends
\* included, on an object obj.
RangeBody(obj, startRange, endRange) ==
  SubSeq(obj, startRange + 1, Min(endRange, Len(obj) - 1) + 1)

\* FileReader.ReadAt: the body of the http response
FileReaderReadAt(obj, size, off) ==
  [open |-> TRUE, bytes |-> RangeBody(obj, off, off + size - 1)]

\* io.ReadFull of k > 0 bytes from a stream that has still to deliver bytes
ReadFull(bytes, k) ==
  [n |-> Min(k, Len(bytes)),
   err |-> IF k <= Len(bytes) THEN "nil"
           ELSE IF Len(bytes) = 0 THEN "EOF" ELSE "ErrUnexpectedEOF"]

\* FileReader.Read, the loop: k is len(p), data the bytes put into p so far
RECURSIVE ReadLoop(_, _, _, _, _)
ReadLoop(obj, f, k, data, ok) ==
  IF k = 0 THEN [reader |-> f, data |-> data, err |-> "nil"]
  ELSE IF f.length - f.position = 0
    THEN [reader |-> f, data |-> data, err |-> "EOF"]
  ELSE IF ~f.httpResponse.open /\ ~ok
    THEN [reader |-> f, data |-> data, err |-> "error"]
  ELSE
    LET resp == IF f.httpResponse.open THEN f.httpResponse
                ELSE FileReaderReadAt(obj,
                       Min(f.length - f.position, f.readSize), f.position)
        r == ReadFull(resp.bytes, k)
        g == [f EXCEPT !.position = @ + r.n,
                       !.httpResponse =
                          [open |-> TRUE,
                           bytes |-> SubSeq(resp.bytes, r.n + 1, Len(resp.bytes))]]
        d == data \o SubSeq(resp.bytes, 1, r.n)
    IN IF r.err = "EOF"
         THEN ReadLoop(obj, [g EXCEPT !.httpResponse = NoBody], k - r.n, d, ok)
         ELSE IF r.err # "nil"
           THEN [reader |-> g, data |-> d, err |-> r.err]
           ELSE ReadLoop(obj, g, k - r.n, d, ok)

\* FileReader.Read(p) with len(p) = k; ok is whether an http request made
\* during the call succeeds.
FileReaderRead(obj, f, k, ok) == ReadLoop(obj, f, k, <<>>, ok)

NoReads == [start |-> 0, got |-> <<>>, len |-> 0, n |-> 0, err |-> "none"]

\* A reader is made at position p of an object of known length.
ReaderNew(obj, p, sequential) ==
  /\ ~fileReader.made
  /\ object' = obj
  /\ fileReader' = NewFileReader(Len(obj), p, sequential)
  /\ readLog' = [NoReads EXCEPT !.start = p]
  /\ UNCHANGED driveVars

\* One call of FileReader.Read
ReaderRead(k, ok) ==
  LET r == FileReaderRead(object, fileReader, k, ok)
  IN /\ fileReader.made
     /\ fileReader' = r.reader
     /\ readLog' = [readLog EXCEPT !.got = @ \o r.data, !.len = k,
                                   !.n = Len(r.data), !.err = r.err]
     /\ UNCHANGED <<object, driveVars>>

\* FileReader.Close
ReaderClose ==
  /\ fileReader.made
  /\ fileReader' = [fileReader EXCEPT !.httpResponse = NoBody]
  /\ UNCHANGED <<object, readLog, driveVars>>

(***************************************************************************)
(* DriveFile (src/drive_file.go): the file of a remote object. Read keeps  *)
(* a bufio.Reader of defaultReadSize bytes over the FileReader that        *)
(* NewFileReader(driveApi, id, position) makes (src/unnamed/part_001), and *)
(* fills the buffer of the kernel with io.ReadFull. No method of DriveFile *)
(* takes a lock (the field lock is never used), and go-fuse serves the     *)
(* upcalls of one file side by side: every method is the sequence of its   *)
(* reads and writes of the fields and of its requests to the remote, and   *)
(* the steps of two threads interleave.                                    *)
(***************************************************************************)
\* DriveApi.ReadAt(id, p, off) with len(p) = m, the method FileReader.Read of
\* part_001 calls. A request that fails gives no bytes and an error. One
\* that is answered gives the bytes of the object from off, at most m; when
\* these are fewer than m, the error is eofErr: nil, io.EOF or
\* io.ErrUnexpectedEOF.
ApiReadAt(obj, m, off, ok, eofErr) ==
  IF ~ok THEN [data |-> <<>>, err |-> "error"]
  ELSE IF off + m <= Len(obj)
    THEN [data |-> SubSeq(obj, off + 1, off + m), err |-> "nil"]
    ELSE [data |-> SubSeq(obj, off + 1, Len(obj)), err |-> eofErr]

\* NewDriveFile: no reader yet (nil), and dataBuffer is make([]byte, 0)
NoDriveFile == [opened |-> FALSE, reader |-> NoObj, readerPosition |-> 0,
                dataBuffer |-> NoObj]

\* A thread that is in no method of the DriveFile.
NoDriveCall == [op |-> "none", stage |-> "idle", off |-> 0, len |-> 0,
                data |-> <<>>, reader |-> NoObj, want |-> 0, at |-> 0,
                err |-> "nil", ok |-> TRUE, buf |-> NoObj, pos |-> 0,
                arr |-> NoObj, n |-> 0]

NoDriveRead == [op |-> "none", thread |-> NoThread, off |-> 0, len |-> 0,
                ok |-> TRUE, status |-> "none", data |-> <<>>]

\* What a method of thread t returns to the kernel.
DriveReturned(t, op, off, len, ok, status, data) ==
  [op |-> op, thread |-> t, off |-> off, len |-> len, ok |-> ok,
   status |-> status, data |-> data]

\* bufio.NewReaderSize(api.NewFileReader(f.driveApi, f.Id, off),
\* defaultReadSize): the FileReader of part_001 is a position, the
\* bufio.Reader the bytes it holds and the error it has kept.
NewBufReader(off) == [position |-> off, buf |-> <<>>, err |-> "nil"]

\* The bytes of a slice: NoObj is the slice of no bytes.
BufOf(a) == IF a = NoObj THEN <<>> ELSE buffers[a]

\* The errors a ReadAt that comes to the end of the object may give.
EofErrors == {"nil", "EOF", "ErrUnexpectedEOF"}

\* A thread that is in no method of the DriveFile takes an upcall.
DriveEnter(t) ==
  /\ ~Crashed
  /\ driveFile.opened
  /\ driveCall[t].op = "none"

\* Thread t is at this stage of this method.
DriveAt(t, op, stage) ==
  /\ ~Crashed
  /\ driveCall[t].op = op
  /\ driveCall[t].stage = stage

\* A step of thread t leaves the DriveFile f, its own call c, the
\* bufio.Readers rs and the arrays bs, and returns ret (NoDriveRead when the
\* method goes on). What nothing refers to any more is collected.
DriveStep(t, f, c, rs, bs, ret) ==
  /\ driveFile' = f
  /\ driveCall' = [driveCall EXCEPT ![t] = c]
  /\ readers' = Collect(rs, {f.reader} \cup {driveCall'[u].reader : u \in Threads})
  /\ buffers' = Collect(bs, {f.dataBuffer}
                               \cup {driveCall'[u].buf : u \in Threads}
                               \cup {driveCall'[u].arr : u \in Threads})
  /\ driveLast' = ret
  /\ UNCHANGED <<fileReader, readLog>>

\* A DriveFile is made for a remote object.
DriveOpen(obj) ==
  /\ ~driveFile.opened
  /\ object' = obj
  /\ driveFile' = [NoDriveFile EXCEPT !.opened = TRUE]
  /\ UNCHANGED <<fileReader, readLog, driveLast, driveCall, readers, buffers, pc>>

\* DriveFile.Read(buf, off) with len(buf) = k, line 85: the Read calls
\* serialize_reads.Wait(off, len(buf)) and waits there.
DriveReadCall(t, k, off) ==
  /\ DriveEnter(t)
  /\ DriveStep(t, driveFile,
               [NoDriveCall EXCEPT !.op = "read", !.off = off, !.len = k,
                  !.stage = "wait"],
               readers, buffers, NoDriveRead)
  /\ UNCHANGED <<object, pc>>

\* The Reads that are between the return of serialize_reads.Wait and their
\* serialize_reads.Done, which is deferred to the return of Read.
PastGate == {u \in Threads : driveCall[u].op = "read" /\ driveCall[u].stage # "wait"}

\* serialize_reads.Wait returns. The gate is a serializer: it lets one of
\* the Reads that wait pass, whichever the offset of the others, when the
\* Read before it has called Done. Read goes on with line 90:
\* f.reader == nil
DriveReadPass(t) ==
  /\ DriveAt(t, "read", "wait")
  /\ PastGate = {}
  /\ DriveStep(t, driveFile,
               [driveCall[t] EXCEPT
                  !.stage = IF driveFile.reader = NoObj THEN "setpos"
                            ELSE "checkpos"],
               readers, buffers, NoDriveRead)
  /\ UNCHANGED <<object, pc>>

\* Read, line 92: f.readerPosition = off
DriveReadSetPos(t) ==
  /\ DriveAt(t, "read", "setpos")
  /\ DriveStep(t, [driveFile EXCEPT !.readerPosition = driveCall[t].off],
               [driveCall[t] EXCEPT !.stage = "newreader"],
               readers, buffers, NoDriveRead)
  /\ UNCHANGED <<object, pc>>

\* Read, line 95: f.readerPosition != off
DriveReadCheckPos(t) ==
  /\ DriveAt(t, "read", "checkpos")
  /\ DriveStep(t, driveFile,
               [driveCall[t] EXCEPT
                  !.stage = IF driveFile.readerPosition # driveCall[t].off
                              THEN "newreader" ELSE "readfull"],
               readers, buffers, NoDriveRead)
  /\ UNCHANGED <<object, pc>>

\* Read, lines 93-94 and 98-99: f.reader = bufio.NewReaderSize(...)
DriveReadNewReader(t) ==
  /\ DriveAt(t, "read", "newreader")
  /\ DriveStep(t, [driveFile EXCEPT !.reader = NewAddr(readers)],
               [driveCall[t] EXCEPT !.stage = "readfull"],
               MapPut(readers, NewAddr(readers), NewBufReader(driveCall[t].off)),
               buffers, NoDriveRead)
  /\ UNCHANGED <<object, pc>>

\* Read, line 106: io.ReadFull(f.reader, buf) is called with the reader
\* that f.reader is now. ReadAtLeast makes no Read for a buffer of no bytes.
DriveReadFull(t) ==
  /\ DriveAt(t, "read", "readfull")
  /\ DriveStep(t, driveFile,
               [driveCall[t] EXCEPT !.reader = driveFile.reader,
                  !.stage = IF driveCall[t].len = 0 THEN "advance" ELSE "read"],
               readers, buffers, NoDriveRead)
  /\ UNCHANGED <<object, pc>>

\* The loop of io.ReadAtLeast after a Read of the bufio.Reader has given
\* data and err to the call c: another Read while the buffer is not full
\* and there is no error; else ReadFull returns, with nil for a full
\* buffer and io.ErrUnexpectedEOF for io.EOF after some bytes.
ReadAtLeast(c, data, err) ==
  LET got == c.data \o data
  IN IF Len(got) < c.len /\ err = "nil"
       THEN [c EXCEPT !.data = got, !.stage = "read"]
       ELSE [c EXCEPT !.data = got, !.stage = "advance",
               !.err = IF Len(got) >= c.len THEN "nil"
                       ELSE IF Len(got) > 0 /\ err = "EOF"
                         THEN "ErrUnexpectedEOF"
                       ELSE err]

\* bufio.Reader.Read(p) with len(p) = m > 0, up to its return or up to the
\* Read of the FileReader: an empty bufio.Reader returns the error it has
\* kept, or reads from the FileReader, into p when p is not smaller than
\* its buffer and into its buffer when it is; the FileReader calls
\* ReadAt(id, p, f.position). A bufio.Reader that holds bytes gives of
\* them.
DriveBufRead(t) ==
  LET c == driveCall[t]
      b == readers[c.reader]
      m == c.len - Len(c.data)
      n == Min(m, Len(b.buf))
  IN /\ DriveAt(t, "read", "read")
     /\ IF b.buf = <<>> /\ b.err # "nil"
          THEN DriveStep(t, driveFile, ReadAtLeast(c, <<>>, b.err),
                         [readers EXCEPT ![c.reader].err = "nil"],
                         buffers, NoDriveRead)
        ELSE IF b.buf = <<>>
          THEN DriveStep(t, driveFile,
                         [c EXCEPT !.stage = "response", !.at = b.position,
                            !.want = IF m >= DriveBufSize THEN m
                                     ELSE DriveBufSize],
                         readers, buffers, NoDriveRead)
        ELSE DriveStep(t, driveFile, ReadAtLeast(c, SubSeq(b.buf, 1, n), "nil"),
                       [readers EXCEPT ![c.reader].buf =
                          SubSeq(b.buf, n + 1, Len(b.buf))],
                       buffers, NoDriveRead)
     /\ UNCHANGED <<object, pc>>

\* The ReadAt of thread t is answered (ok) or fails: the FileReader moves
\* on by the bytes it got, and bufio.Reader.Read returns them with the
\* error, or puts them into its buffer, keeps the error and gives of them.
DriveReadResponse(t, ok, eofErr) ==
  LET c == driveCall[t]
      b == readers[c.reader]
      m == c.len - Len(c.data)
      r == ApiReadAt(object, c.want, c.at, ok, eofErr)
      n == Min(m, Len(r.data))
      d == [c EXCEPT !.ok = @ /\ ok]
      movedOn == [b EXCEPT !.position = @ + Len(r.data)]
  IN /\ DriveAt(t, "read", "response")
     /\ IF m >= DriveBufSize \/ r.data = <<>>
          THEN DriveStep(t, driveFile, ReadAtLeast(d, r.data, r.err),
                         [readers EXCEPT ![c.reader] =
                            [movedOn EXCEPT !.err = "nil"]],
                         buffers, NoDriveRead)
          ELSE DriveStep(t, driveFile, ReadAtLeast(d, SubSeq(r.data, 1, n), "nil"),
                         [readers EXCEPT ![c.reader] =
                            [movedOn EXCEPT !.err = r.err,
                               !.buf = SubSeq(r.data, n + 1, Len(r.data))]],
                         buffers, NoDriveRead)
     /\ UNCHANGED <<object, pc>>

\* Read, line 107: f.readerPosition += int64(n), the sum
DriveReadAdvance(t) ==
  /\ DriveAt(t, "read", "advance")
  /\ DriveStep(t, driveFile,
               [driveCall[t] EXCEPT !.stage = "return",
                  !.pos = driveFile.readerPosition + Len(driveCall[t].data)],
               readers, buffers, NoDriveRead)
  /\ UNCHANGED <<object, pc>>

\* Read, lines 107-117: the sum is stored; EIO for an error of ReadFull,
\* else the buffer and OK. The deferred serialize_reads.Done opens the gate.
DriveReadReturn(t) ==
  LET c == driveCall[t]
  IN /\ DriveAt(t, "read", "return")
     /\ DriveStep(t, [driveFile EXCEPT !.readerPosition = c.pos], NoDriveCall,
                  readers, buffers,
                  IF c.err # "nil"
                    THEN DriveReturned(t, "read", c.off, c.len, c.ok, "EIO", <<>>)
                    ELSE DriveReturned(t, "read", c.off, c.len, c.ok, "OK", c.data))
     /\ UNCHANGED <<object, pc>>

\* max(int(off)+len(data), cap(f.dataBuffer) * 2), line 148
GrownSize(need, cap) == IF need > 2 * cap THEN need ELSE 2 * cap

\* DriveFile.Write(data, off), line 146: cap(f.dataBuffer) < off + len(data)
DriveWriteCall(t, data, off) ==
  /\ DriveEnter(t)
  /\ DriveStep(t, driveFile,
               [NoDriveCall EXCEPT !.op = "write", !.off = off,
                  !.len = Len(data), !.data = data,
                  !.stage = IF Len(BufOf(driveFile.dataBuffer)) < off + Len(data)
                              THEN "make" ELSE "target"],
               readers, buffers, NoDriveRead)
  /\ UNCHANGED <<object, pc>>

\* Write, line 148: t := make([]byte, max(...)), an array of zero bytes of
\* the size that the capacity of f.dataBuffer, read again, gives
DriveWriteMake(t) ==
  LET c == driveCall[t]
      size == GrownSize(c.off + c.len, Len(BufOf(driveFile.dataBuffer)))
  IN /\ DriveAt(t, "write", "make")
     /\ DriveStep(t, driveFile,
                  [c EXCEPT !.stage = "source", !.buf = NewAddr(buffers)],
                  readers,
                  MapPut(buffers, NewAddr(buffers), [i \in 1..size |-> 0]),
                  NoDriveRead)
     /\ UNCHANGED <<object, pc>>

\* Write, line 149: copy(t, f.dataBuffer) takes the slice that f.dataBuffer
\* is now; it will copy as many bytes as the shorter of the two holds.
DriveWriteSource(t) ==
  LET c == driveCall[t]
      n == Min(Len(buffers[c.buf]), Len(BufOf(driveFile.dataBuffer)))
  IN /\ DriveAt(t, "write", "source")
     /\ DriveStep(t, driveFile,
                  [c EXCEPT !.stage = IF n = 0 THEN "assign" ELSE "copyold",
                     !.arr = IF n = 0 THEN NoObj ELSE driveFile.dataBuffer,
                     !.n = n, !.at = 0],
                  readers, buffers, NoDriveRead)
     /\ UNCHANGED <<object, pc>>

\* Write, line 149: copy moves the next byte of the old array into t. No
\* lock keeps another Write from storing into the old array meanwhile.
DriveWriteCopyOld(t) ==
  LET c == driveCall[t]
      done == c.at + 1 = c.n
  IN /\ DriveAt(t, "write", "copyold")
     /\ DriveStep(t, driveFile,
                  [c EXCEPT !.stage = IF done THEN "assign" ELSE "copyold",
                     !.at = IF done THEN 0 ELSE c.at + 1,
                     !.arr = IF done THEN NoObj ELSE c.arr,
                     !.n = IF done THEN 0 ELSE c.n],
                  readers,
                  [buffers EXCEPT ![c.buf][c.at + 1] = buffers[c.arr][c.at + 1]],
                  NoDriveRead)
     /\ UNCHANGED <<object, pc>>

\* Write, line 150: f.dataBuffer = t
DriveWriteAssign(t) ==
  /\ DriveAt(t, "write", "assign")
  /\ DriveStep(t, [driveFile EXCEPT !.dataBuffer = driveCall[t].buf],
               [driveCall[t] EXCEPT !.stage = "target", !.buf = NoObj],
               readers, buffers, NoDriveRead)
  /\ UNCHANGED <<object, pc>>

\* Write, line 154: f.dataBuffer[off:] of the slice that f.dataBuffer is
\* now; the slice expression panics when off is past its end. copy will
\* move as many bytes of data as the slice has room for from off. With
\* nothing to move Write returns len(data) and OK (line 158).
DriveWriteTarget(t) ==
  LET c == driveCall[t]
      a == driveFile.dataBuffer
      n == Min(c.len, Len(BufOf(a)) - c.off)
  IN /\ DriveAt(t, "write", "target")
     /\ IF c.off > Len(BufOf(a))
          THEN /\ pc' = [pc EXCEPT ![t] = "panic"]
               /\ UNCHANGED <<driveVars, fileReader, readLog>>
          ELSE /\ IF n = 0
                    THEN DriveStep(t, driveFile, NoDriveCall, readers, buffers,
                                   DriveReturned(t, "write", c.off, c.len, TRUE,
                                                 "OK", <<>>))
                    ELSE DriveStep(t, driveFile,
                                   [c EXCEPT !.stage = "copy", !.arr = a,
                                      !.n = n, !.at = 0],
                                   readers, buffers, NoDriveRead)
               /\ UNCHANGED pc
     /\ UNCHANGED object

\* Write, lines 154-158: copy stores the next byte of data into the array;
\* after the last one Write returns len(data) and OK.
DriveWriteCopy(t) ==
  LET c == driveCall[t]
      stored == [buffers EXCEPT ![c.arr][c.off + c.at + 1] = c.data[c.at + 1]]
  IN /\ DriveAt(t, "write", "copy")
     /\ IF c.at + 1 = c.n
          THEN DriveStep(t, driveFile, NoDriveCall, readers, stored,
                         DriveReturned(t, "write", c.off, c.len, TRUE, "OK", <<>>))
          ELSE DriveStep(t, driveFile, [c EXCEPT !.at = c.at + 1], readers,
                         stored, NoDriveRead)
     /\ UNCHANGED <<object, pc>>

\* DriveFile.Flush, line 171: nothing to do for a buffer of no bytes
DriveFlushCall(t) ==
  /\ DriveEnter(t)
  /\ IF Len(BufOf(driveFile.dataBuffer)) = 0
       THEN DriveStep(t, driveFile, NoDriveCall, readers, buffers,
                      DriveReturned(t, "flush", 0, 0, TRUE, "OK", <<>>))
       ELSE DriveStep(t, driveFile,
                      [NoDriveCall EXCEPT !.op = "flush", !.stage = "media"],
                      readers, buffers, NoDriveRead)
  /\ UNCHANGED <<object, pc>>

\* Flush, line 180: request.Media(bytes.NewReader(f.dataBuffer)), a reader
\* of the slice that f.dataBuffer is now: its array and its length
DriveFlushMedia(t) ==
  LET n == Len(BufOf(driveFile.dataBuffer))
  IN /\ DriveAt(t, "flush", "media")
     /\ DriveStep(t, driveFile,
                  [driveCall[t] EXCEPT !.stage = IF n = 0 THEN "do" ELSE "send",
                     !.buf = driveFile.dataBuffer, !.len = n, !.n = n,
                     !.at = 0, !.data = <<>>],
                  readers, buffers, NoDriveRead)
     /\ UNCHANGED <<object, pc>>

\* Flush, line 183: request.Do() reads the body of the request from the
\* reader, the next byte of the array as it is now. No lock keeps a Write
\* from storing into the array meanwhile.
DriveFlushSend(t) ==
  LET c == driveCall[t]
  IN /\ DriveAt(t, "flush", "send")
     /\ DriveStep(t, driveFile,
                  [c EXCEPT !.data = Append(c.data, buffers[c.buf][c.at + 1]),
                     !.at = c.at + 1,
                     !.stage = IF c.at + 1 = c.n THEN "do" ELSE "send"],
                  readers, buffers, NoDriveRead)
     /\ UNCHANGED <<object, pc>>

\* Flush, line 183: the remote takes the request, and the body that was
\* read becomes the content of the object, or the request fails. The
\* answer is still on its way to Flush.
DriveFlushDo(t, ok) ==
  LET c == driveCall[t]
  IN /\ DriveAt(t, "flush", "do")
     /\ object' = IF ok THEN c.data ELSE object
     /\ DriveStep(t, driveFile, [c EXCEPT !.stage = "return", !.ok = ok],
                  readers, buffers, NoDriveRead)
     /\ UNCHANGED pc

\* DriveFile.Truncate(size), lines 202-205: ENOSYS for a size that is not 0
DriveTruncateCall(t, size) ==
  /\ DriveEnter(t)
  /\ IF size # 0
       THEN DriveStep(t, driveFile, NoDriveCall, readers, buffers,
                      DriveReturned(t, "truncate", size, 0, TRUE, "ENOSYS", <<>>))
       ELSE DriveStep(t, driveFile,
                      [NoDriveCall EXCEPT !.op = "truncate", !.stage = "do"],
                      readers, buffers, NoDriveRead)
  /\ UNCHANGED <<object, pc>>

\* Truncate, lines 207-209: one Files.Update(f.Id, ...) with an empty body:
\* the remote takes it and the object becomes empty, or the request fails.
\* The answer is still on its way to Truncate.
DriveTruncateDo(t, ok) ==
  LET c == driveCall[t]
  IN /\ DriveAt(t, "truncate", "do")
     /\ object' = IF ok THEN <<>> ELSE object
     /\ DriveStep(t, driveFile, [c EXCEPT !.stage = "return", !.ok = ok],
                  readers, buffers, NoDriveRead)
     /\ UNCHANGED pc

\* Flush, lines 184-190, and Truncate, lines 212-217: request.Do() returns;
\* EIO for an error, else OK. The buffer of Flush stays as it is.
DriveDoReturn(t) ==
  LET c == driveCall[t]
  IN /\ ~Crashed
     /\ c.op \in {"flush", "truncate"}
     /\ c.stage = "return"
     /\ DriveStep(t, driveFile, NoDriveCall, readers, buffers,
                  DriveReturned(t, c.op, 0, c.len, c.ok,
                                IF c.ok THEN "OK" ELSE "EIO", <<>>))
     /\ UNCHANGED <<object, pc>>


(***************************************************************************)
(* api.Syncer (src/api/syncer.go): the upload queue. EnqueueFile persists  *)
(* an Upload with DB.AddToUploadQueue and sends it on the channel; the     *)
(* worker (Start) receives from the channel and uploads. The process may   *)
(* die and start again: the channel and the worker are memory, the         *)
(* database, the local files and the remote are not.                       *)
(***************************************************************************)
\* make(chan metadb.Upload, 10)
ChanCap == 10

\* The Uploads a caller enqueues: working copies of two files that are on
\* the remote. WritableFile.Release (src/loopback_file.go 104) enqueues the
\* id of its file, which Create and Open took from the remote.
Uploads == {[Id |-> RemoteId(1), Path |-> <<"t">>],
            [Id |-> RemoteId(2), Path |-> <<"u">>]}

NoUpload == [Id |-> <<>>, Path |-> <<>>]

NoAttempt == [upload |-> NoUpload, err |-> "none"]

\* The call of a remote method: DriveApi.Upload is Files.Update(id, ...)
NoRemoteCall == [method |-> "none", id |-> <<>>, upload |-> NoUpload]

\* DB.AddToUploadQueue: logs, stores nothing
AddToUploadQueue(upload) == "nil"

\* DB.GetUploadQueue: returns nil
GetUploadQueue == <<>>

\* NewSyncer without the channel: the worker is at its select, no EnqueueFile
\* is running. persisted is what GetUploadQueue returned.
NewSyncer(persisted) ==
  [running |-> TRUE, pc |-> "select", step |-> "none", upload |-> NoUpload,
   enq |-> NoUpload, left |-> MaxEnqueues, stop |-> "none"]

\* EnqueueFile up to its send: AddToUploadQueue. The file behind the path
\* exists, the caller has written and closed it.
EnqueuePersist(upload) ==
  /\ syncer.running
  /\ syncer.enq = NoUpload
  /\ syncer.left > 0
  /\ AddToUploadQueue(upload) = "nil"
  /\ syncer' = [syncer EXCEPT !.enq = upload, !.left = @ - 1]
  /\ disk' = disk \cup {upload.Path}
  /\ UNCHANGED <<queue, received, syncLog>>

\* EnqueueFile, s.queue <- upload and return nil: blocks while the channel
\* is full
EnqueueSend ==
  /\ syncer.running
  /\ syncer.enq # NoUpload
  /\ Len(queue) < ChanCap
  /\ queue' = Append(queue, syncer.enq)
  /\ syncer' = [syncer EXCEPT !.enq = NoUpload]
  /\ syncLog' = [syncLog EXCEPT !.pending = @ \cup {syncer.enq}]
  /\ UNCHANGED <<disk, received>>

\* Start, case upload := <-s.queue
WorkerReceive ==
  /\ syncer.running
  /\ syncer.pc = "select"
  /\ queue # <<>>
  /\ queue' = Tail(queue)
  /\ syncer' = [syncer EXCEPT !.pc = "upload", !.step = "open",
                              !.upload = Head(queue)]
  /\ UNCHANGED <<disk, received, syncLog>>

\* The worker is inside uploadFile, at this step of it.
Uploading(step) ==
  /\ syncer.running
  /\ syncer.pc = "upload"
  /\ syncer.step = step

\* uploadFile has returned an error: Start logs it and goes on with its
\* loop (continue), RemoveFromUploadQueue is not called.
UploadFailed ==
  /\ syncer' = [syncer EXCEPT !.pc = "select", !.step = "none",
                              !.upload = NoUpload]
  /\ syncLog' = [syncLog EXCEPT !.last = [upload |-> syncer.upload,
                                          err |-> "error"]]

\* uploadFile, lines 95-98: os.Open(upload.Path)
WorkerOpen ==
  /\ Uploading("open")
  /\ IF syncer.upload.Path \notin disk
       THEN UploadFailed
       ELSE /\ syncer' = [syncer EXCEPT !.step = "remote"]
            /\ UNCHANGED syncLog
  /\ UNCHANGED <<queue, disk, received>>

\* uploadFile, lines 100-103: s.remote.Upload(upload.Id, ...), which is
\* Files.Update(id, ...).Media(reader).Do(), once
WorkerRemote(ok) ==
  LET made == [method |-> "update", id |-> syncer.upload.Id,
               upload |-> syncer.upload]
  IN /\ Uploading("remote")
     /\ IF ~ok
          THEN /\ syncer' = [syncer EXCEPT !.pc = "select", !.step = "none",
                                           !.upload = NoUpload]
               /\ syncLog' = [syncLog EXCEPT
                                !.last = [upload |-> syncer.upload,
                                          err |-> "error"],
                                !.call = made]
               /\ UNCHANGED received
          ELSE /\ syncer' = [syncer EXCEPT !.step = "close"]
               /\ received' = received \cup {syncer.upload.Id}
               /\ syncLog' = [syncLog EXCEPT
                                !.pending = @ \ {syncer.upload},
                                !.call = made]
     /\ UNCHANGED <<queue, disk>>

\* uploadFile, lines 105-108: file.Close()
WorkerClose ==
  /\ Uploading("close")
  /\ syncer' = [syncer EXCEPT !.step = "remove"]
  /\ UNCHANGED <<queue, disk, received, syncLog>>

\* uploadFile, lines 111-116: os.Remove(upload.Path), and return nil
WorkerRemove ==
  /\ Uploading("remove")
  /\ IF syncer.upload.Path \notin disk
       THEN UploadFailed /\ UNCHANGED disk
       ELSE /\ disk' = disk \ {syncer.upload.Path}
            /\ syncer' = [syncer EXCEPT !.step = "dequeue"]
            /\ syncLog' = [syncLog EXCEPT !.last = [upload |-> syncer.upload,
                                                    err |-> "nil"]]
  /\ UNCHANGED <<queue, received>>

\* DB.RemoveFromUploadQueue: logs, removes nothing
RemoveFromUploadQueue(upload) == TRUE

\* Start, lines 58-59: uploadFile returned nil, RemoveFromUploadQueue, and
\* back to the select
WorkerDequeue ==
  /\ Uploading("dequeue")
  /\ RemoveFromUploadQueue(syncer.upload)
  /\ syncer' = [syncer EXCEPT !.pc = "select", !.step = "none",
                              !.upload = NoUpload]
  /\ UNCHANGED <<queue, disk, received, syncLog>>

\* Syncer.Stop up to its send: s.quit <- struct{}{} on the channel without
\* a buffer, so the caller blocks until the worker receives.
Stop ==
  /\ syncer.running
  /\ syncer.stop # "sending"
  /\ syncer' = [syncer EXCEPT !.stop = "sending"]
  /\ UNCHANGED <<queue, disk, received, syncLog>>

\* A worker that leaves its loop without receiving from s.quit.
WorkerQuit_NoReceive ==
  /\ syncer.running
  /\ syncer.pc = "select"
  /\ syncer.stop = "sending"
  /\ syncer' = [syncer EXCEPT !.pc = "stopped"]
  /\ UNCHANGED <<queue, disk, received, syncLog>>

\* Start, case <-s.quit: the worker receives what Stop sends and returns,
\* and with that Stop returns
WorkerQuit ==
  /\ syncer.running
  /\ syncer.pc = "select"
  /\ syncer.stop = "sending"
  /\ syncer' = [syncer EXCEPT !.pc = "stopped", !.stop = "returned"]
  /\ UNCHANGED <<queue, disk, received, syncLog>>

\* The process stops: the channel, the worker and a running EnqueueFile are
\* gone.
ProcessStop ==
  /\ syncer.running
  /\ syncer' = [syncer EXCEPT !.running = FALSE, !.pc = "stopped",
                              !.step = "none", !.upload = NoUpload,
                              !.enq = NoUpload, !.stop = "none"]
  /\ queue' = <<>>
  /\ syncLog' = [syncLog EXCEPT !.last = NoAttempt, !.call = NoRemoteCall]
  /\ UNCHANGED <<disk, received>>

\* The process starts: NewSyncer puts every Upload of DB.GetUploadQueue on
\* the new channel, and main starts the worker.
ProcessStart ==
  /\ ~syncer.running
  /\ Len(GetUploadQueue) <= ChanCap
  /\ queue' = GetUploadQueue
  /\ syncer' = [NewSyncer(GetUploadQueue) EXCEPT !.left = syncer.left]
  /\ UNCHANGED <<disk, received, syncLog>>

(***************************************************************************)
(* api.DriveApi (src/unnamed/part_002): the remote methods. Each wraps its *)
(* http request in a closure and hands it to backoff.Retry. An attempt     *)
(* ends with an outcome of the client library: an error and no response    *)
(* (failed |-> TRUE; status is the status the server answered, 0 when no   *)
(* answer came), or a response with its status and no error. The body of   *)
(* a response may break off before its end (broken |-> TRUE).              *)
(***************************************************************************)
Statuses == {200, 206, 400, 401, 403, 404, 416, 429, 500}

Outcomes ==
  {[status |-> st, failed |-> f, broken |-> FALSE] :
     st \in Statuses, f \in BOOLEAN}
    \cup {[status |-> 0, failed |-> TRUE, broken |-> FALSE]}
    \cup {[status |-> st, failed |-> FALSE, broken |-> TRUE] : st \in {200, 206}}

Methods == {"Create", "Update", "ReadAt", "ReadAll"}

\* isHttpSuccess
isHttpSuccess(code) == code >= 200 /\ code < 300

\* IsPermanentError_Forbidden: IsPermanentError with 403 not retried
IsPermanentError_Forbidden(status) ==
  CASE status = 400 -> TRUE
    [] status = 401 -> TRUE
    [] status = 403 -> TRUE
    [] status = 404 -> TRUE
    [] status = 429 -> FALSE
    [] status = 500 -> FALSE
    [] OTHER -> TRUE

\* IsPermanentError
IsPermanentError(status) ==
  CASE status = 400 -> TRUE
    [] status = 401 -> TRUE
    [] status = 403 -> FALSE
    [] status = 404 -> TRUE
    [] status = 429 -> FALSE
    [] status = 500 -> FALSE
    [] OTHER -> TRUE

\* The closure call of Create, Update, ReadAt and ReadAll on an attempt with
\* this outcome: what it returns to backoff.Retry, and whether it asked
\* IsPermanentError. err is nil in the branch of a response without success, so
\* that branch returns backoff.Permanent(nil) or nil. ReadAll reads
\* response.Status before it looks at err: with no response it panics; after
\* a response of success it copies the body into the file and returns the
\* error of io.Copy. The other closures do not read the body.
Call(method, o) ==
  IF method = "ReadAll" /\ o.failed
    THEN [ret |-> "panic", class |-> "none"]
  ELSE IF o.failed
    THEN [ret |-> "err", class |-> "none"]
  ELSE IF ~isHttpSuccess(o.status)
    THEN IF IsPermanentError(o.status)
           THEN [ret |-> "Permanent(nil)", class |-> "permanent"]
           ELSE [ret |-> "nil", class |-> "retryable"]
  ELSE IF method = "ReadAll" /\ o.broken
    THEN [ret |-> "err", class |-> "none"]
  ELSE [ret |-> "nil", class |-> "none"]

NoApiCall == [method |-> "none", size |-> 0, state |-> "idle",
              attempts |-> <<>>, result |-> "none", stopped |-> FALSE,
              pos |-> 0]

\* The bytes an attempt may move. The closure of Create and Update hands the
\* one reader of the call to Media(reader) on every attempt: an attempt that
\* is answered has sent what the reader had left; one that fails may have
\* taken any part of it. The closure of ReadAll copies the body of a
\* response of success, the size bytes of the object, into the one file of
\* the call: all of it, or the part that came before the body broke off.
\* ReadAt moves nothing.
Consumed(c, o) ==
  IF c.method = "ReadAll"
    THEN IF o.failed \/ ~isHttpSuccess(o.status) THEN {0}
         ELSE IF o.broken THEN 0..c.size
         ELSE {c.size}
  ELSE IF c.method = "ReadAt" THEN {0}
  ELSE IF ~o.failed THEN {c.size - c.pos}
  ELSE 0..(c.size - c.pos)

\* A remote method is called. ReadAt with size 0 returns nil, nil at once.
ApiStart(method, size) ==
  /\ apiCall.state = "idle"
  /\ apiCall' = IF method = "ReadAt" /\ size = 0
                  THEN [NoApiCall EXCEPT !.method = method, !.size = size,
                                         !.state = "returned", !.result = "nil"]
                  ELSE [NoApiCall EXCEPT !.method = method, !.size = size,
                                         !.state = "running"]

\* backoff.Retry, one turn of its loop: the operation is called; nil ends the
\* loop with nil, a PermanentError ends it with the error it wraps, another
\* error is retried unless the time of the backoff is up (stop).
\* read is what the attempt took from the reader, or put into the file:
\* nothing puts the reader or the file back to its start between attempts.
ApiAttempt(o, stop, read) ==
  LET c == Call(apiCall.method, o)
      log == Append(apiCall.attempts,
                    [status |-> o.status, failed |-> o.failed, class |-> c.class,
                     broken |-> o.broken, from |-> apiCall.pos, sent |-> read])
  IN /\ apiCall.state = "running"
     /\ Len(apiCall.attempts) < MaxAttempts
     /\ Len(log) = MaxAttempts => stop
     /\ read \in Consumed(apiCall, o)
     /\ apiCall' =
          CASE c.ret = "panic" ->
                 [apiCall EXCEPT !.attempts = log, !.state = "returned",
                                 !.result = "panic", !.pos = @ + read]
            [] c.ret = "nil" ->
                 [apiCall EXCEPT !.attempts = log, !.state = "returned",
                                 !.result = "nil", !.pos = @ + read]
            [] c.ret = "Permanent(nil)" ->
                 [apiCall EXCEPT !.attempts = log, !.state = "returned",
                                 !.result = "nil", !.pos = @ + read]
            [] OTHER ->
                 IF stop
                   THEN [apiCall EXCEPT !.attempts = log, !.state = "returned",
                                        !.result = "error", !.stopped = TRUE,
                                        !.pos = @ + read]
                   ELSE [apiCall EXCEPT !.attempts = log, !.pos = @ + read]

\* The caller has the result; the next call may begin.
ApiDone ==
  /\ apiCall.state = "returned"
  /\ apiCall' = NoApiCall

(***************************************************************************)
(* LocalFileCache.EnsureLocal (part_008, lines 942-967). Nothing in the    *)
(* repository calls it; it is exported, for a caller that holds a          *)
(* FileReference. It takes the lock of the name and then filesMu, and      *)
(* keeps both until it returns.                                            *)
(***************************************************************************)
\* EnsureLocal is called with a FileReference.
EnsureCall(t, h) ==
  /\ Enter(t)
  /\ BagIn(h, handles)
  /\ call' = [call EXCEPT ![t] = [NoCacheCall EXCEPT !.op = "ensure",
                !.stage = "lock", !.name = h.name, !.ref = h]]
  /\ last' = NoCall /\ UNCHANGED <<mutexVars, db, remote, files, rfs, handles, inlineVars>>

\* EnsureLocal, lines 946-955 and 963: filesMu, the look at the files map
\* (a panic when the name has no entry), and for a file that needs no
\* request, because it is fetched or has the id EmptyId, the rest.
EnsureBody(t) ==
  LET c == call[t]
  IN /\ At(t, {"ensure"}, "body")
     /\ pc[t] = "held"
     /\ FilesMuFree
     /\ IF c.name \notin DOMAIN files
          THEN /\ pc' = [pc EXCEPT ![t] = "panic"]
               /\ UNCHANGED <<mutexes, objs, mapMutex, key, mtx, rfs, call>>
          ELSE LET refs == files[c.name]
               IN /\ call' = [call EXCEPT
                       ![t].stage = IF ~rfs[refs].fetched /\ rfs[refs].id # EmptyId
                                      THEN "fetch" ELSE "unlock",
                       ![t].refs = refs]
                  /\ rfs' = IF rfs[refs].id = EmptyId
                              THEN [rfs EXCEPT ![refs].fetched = TRUE]
                              ELSE rfs
                  /\ UNCHANGED mutexVars
     /\ last' = NoCall /\ UNCHANGED <<db, remote, files, handles, inlineVars>>

\* The outcomes of the request of api.ReadAll up to its response; the
\* remote answers with success for an object it has.
FetchOutcomes ==
  {[status |-> 200, failed |-> FALSE, broken |-> FALSE],
   [status |-> 404, failed |-> FALSE, broken |-> FALSE],
   [status |-> 404, failed |-> TRUE, broken |-> FALSE]}

\* EnsureLocal, lines 957-963: an attempt of api.ReadAll(refs.id, file.file)
\* inside backoff.Retry, under filesMu, up to the response. With no
\* response the closure panics; a response without success ends ReadAll
\* with nil, and the file counts as fetched; after a response of success
\* io.Copy begins (part_002, line 291), with the content the object has now
\* as the body.
EnsureAttempt(t, o) ==
  LET c == call[t]
      id == rfs[c.refs].id
      r == Call("ReadAll", o)
      success == ~o.failed /\ isHttpSuccess(o.status)
  IN /\ At(t, {"ensure"}, "fetch")
     /\ success => RemoteHas(remote, id)
     /\ IF r.ret = "panic"
          THEN /\ pc' = [pc EXCEPT ![t] = "panic"]
               /\ UNCHANGED <<mutexes, objs, mapMutex, key, mtx, rfs, call>>
          ELSE /\ rfs' = IF success THEN rfs
                         ELSE [rfs EXCEPT ![c.refs].fetched = TRUE]
               /\ call' = [call EXCEPT
                             ![t].stage = IF success THEN "copy" ELSE "unlock",
                             ![t].attempts = @ + 1,
                             ![t].calls = IF success THEN @ ELSE @ + 1,
                             ![t].body = IF success THEN remote[id].data
                                         ELSE <<>>,
                             ![t].err = "nil"]
               /\ UNCHANGED mutexVars
     /\ last' = NoCall /\ UNCHANGED <<db, remote, files, handles, inlineVars>>

\* io.Copy(file, response.Body), one turn of its loop: the next bytes of
\* the body, ChunkSize at most, are written into the file of the reference
\* at the offset of that file, which moves; nothing puts the offset back
\* before the next attempt. At the end of the body ReadAll returns nil and
\* the file counts as fetched. When the body breaks off (broken), or the
\* file is closed, the closure returns the error, and another attempt
\* follows (again) unless the time is up. Between two Writes the file is
\* open to the Read, the WriteAt and the Truncate of the other
\* FileReferences, which take no lock.
EnsureCopy(t, broken, again) ==
  LET c == call[t]
      f == rfs[c.ref.file]
      piece == SubSeq(c.body, 1, Min(ChunkSize, Len(c.body)))
      failed == broken \/ (piece # <<>> /\ ~f.open)
      retry == again /\ c.attempts < MaxAttempts
  IN /\ At(t, {"ensure"}, "copy")
     /\ IF failed
          THEN /\ call' = [call EXCEPT
                             ![t].stage = IF retry THEN "fetch" ELSE "unlock",
                             ![t].calls = IF retry THEN @ ELSE @ + 1,
                             ![t].body = <<>>,
                             ![t].err = "error"]
               /\ UNCHANGED rfs
        ELSE IF piece = <<>>
          THEN /\ call' = [call EXCEPT ![t].stage = "unlock",
                                       ![t].calls = @ + 1,
                                       ![t].err = "nil"]
               /\ rfs' = [rfs EXCEPT ![c.refs].fetched = TRUE]
        ELSE /\ call' = [call EXCEPT ![t].body = Rest(c.body, Len(piece))]
             /\ rfs' = [rfs EXCEPT
                          ![c.ref.file].data = WriteAt(@, piece, f.pos),
                          ![c.ref.file].pos = @ + Len(piece)]
     /\ last' = NoCall
     /\ UNCHANGED <<mutexVars, db, remote, files, handles, inlineVars>>

(***************************************************************************)
(* The encoding of Attributes, put to work: a record is stored with        *)
(* DB.SetAttributes and read back with DB.GetAttributes.                   *)
(***************************************************************************)
\* Ids of several lengths, sizes and modes with bytes in every position that
\* the integers of the checker can hold.
AttrIds == {<<>>, <<65>>, <<65, 255>>, EmptyId}

AttrSizes == {0, 1, 255, 256, 65539, 2147483647}

AttrModes == {0, 420, 493, 16777216}

AttrRecords ==
  [Id : AttrIds, Size : AttrSizes, Mode : AttrModes,
   IsRegularFile : BOOLEAN, HasContent : BOOLEAN]

\* SetAttributes(path, attributes), then GetAttributes(path); decoded is
\* readAttributes of the bytes serialiseAttributes made.
AttrSetGet(path, attributes) ==
  LET r == SetAttributes(db, path, attributes)
  IN /\ db' = r.db
     /\ last' = Returned("setattributes", path, attributes,
                         IF r.err # "nil" THEN "EIO" ELSE "OK", r.err,
                         [decoded |-> readAttributes(writeAttributes(attributes)),
                          got |-> GetAttributes(r.db, path)])
     /\ UNCHANGED <<mutexVars, remote, cacheVars, inlineVars>>

(***************************************************************************)
(* The specifications.                                                     *)
(***************************************************************************)
\* The state after NewKeyedMutex, NewLocalFileCache and on a new database.
\* No rename of an inline file to remember.
NoMove == [from |-> <<>>, to |-> <<>>, content |-> <<>>]

Init ==
  /\ mutexes = <<>>
  /\ objs = <<>>
  /\ mapMutex = NoThread
  /\ pc = [t \in Threads |-> "idle"]
  /\ key = [t \in Threads |-> <<>>]
  /\ mtx = [t \in Threads |-> NoObj]
  /\ locksLeft = [t \in Threads |-> MaxLocks]
  /\ db = <<>>
  /\ remote = <<>>
  /\ last = NoCall
  /\ renamesLeft = MaxRenames
  /\ contentBucket = <<>>
  /\ dbfiles = <<>>
  /\ files = <<>>
  /\ rfs = <<>>
  /\ handles = EmptyBag
  /\ call = [t \in Threads |-> NoCacheCall]
  /\ object = <<>>
  /\ fileReader = NoReader
  /\ readLog = NoReads
  /\ driveFile = NoDriveFile
  /\ driveLast = NoDriveRead
  /\ driveCall = [t \in Threads |-> NoDriveCall]
  /\ readers = <<>>
  /\ buffers = <<>>
  /\ queue = <<>>
  /\ syncer = NewSyncer(GetUploadQueue)
  /\ disk = {}
  /\ received = {}
  /\ syncLog = [pending |-> {}, last |-> NoAttempt, call |-> NoRemoteCall]
  /\ apiCall = NoApiCall
  /\ disturbed = {}
  /\ moved = NoMove

\* A thread of SpecMutex calls Lock(k).
MutexLock(t, k) ==
  /\ locksLeft[t] > 0
  /\ LockMapAcquire(t, k)
  /\ locksLeft' = [locksLeft EXCEPT ![t] = @ - 1]

otherVars == <<locksLeft, renamesLeft, metaVars, cacheVars, inlineVars, auxVars>>

NextMutex ==
  \/ \E t \in Threads, k \in Keys :
       MutexLock(t, k) /\ UNCHANGED <<renamesLeft, metaVars, cacheVars, inlineVars, auxVars>>
  \/ \E t \in Threads : LockEntry(t) /\ UNCHANGED otherVars
  \/ \E t \in Threads : LockMapRelease(t) /\ UNCHANGED otherVars
  \/ \E t \in Threads : LockAcquire(t) /\ UNCHANGED otherVars
  \/ \E t \in Threads : UnlockMapAcquire(t) /\ UNCHANGED otherVars
  \/ \E t \in Threads : UnlockEntry(t) /\ UNCHANGED otherVars
  \/ \E t \in Threads : UnlockMapRelease(t) /\ UNCHANGED otherVars
  \/ \E t \in Threads : UnlockRelease(t) /\ UNCHANGED otherVars

SpecMutex == Init /\ [][NextMutex]_vars

\* The threads are goroutines that run whenever they can, and a thread that
\* holds a key calls Unlock in the end. A sync.Mutex hands itself to a
\* goroutine that has waited long (its starvation mode), so a thread that
\* waits for mapMutex or for a countMutex gets it if it is free again and
\* again.
SpecMutexLive ==
  /\ SpecMutex
  /\ \A t \in Threads :
       /\ WF_vars(LockEntry(t) /\ UNCHANGED otherVars)
       /\ WF_vars(LockMapRelease(t) /\ UNCHANGED otherVars)
       /\ SF_vars(LockAcquire(t) /\ UNCHANGED otherVars)
       /\ SF_vars(UnlockMapAcquire(t) /\ UNCHANGED otherVars)
       /\ WF_vars(UnlockEntry(t) /\ UNCHANGED otherVars)
       /\ WF_vars(UnlockMapRelease(t) /\ UNCHANGED otherVars)
       /\ WF_vars(UnlockRelease(t) /\ UNCHANGED otherVars)

\* A thread that holds no key calls Unlock(k). Unlock, line 82:
\* c.mapMutex.Lock(). The thread comes with no countMutex of its own.
UnlockNotHeld(t, k) ==
  /\ ~Crashed
  /\ pc[t] = "idle"
  /\ mapMutex = NoThread
  /\ mapMutex' = t
  /\ key' = [key EXCEPT ![t] = k]
  /\ pc' = [pc EXCEPT ![t] = "U_map"]
  /\ UNCHANGED <<mutexes, objs, mtx>>

\* SpecMisuse: the threads of SpecMutex, which now also call Unlock for a
\* key they do not hold.
NextMisuse ==
  \/ NextMutex
  \/ \E t \in Threads, k \in Keys : UnlockNotHeld(t, k) /\ UNCHANGED otherVars

SpecMisuse == Init /\ [][NextMisuse]_vars

\* What the handlers of the file system leave alone.
otherFs == <<locksLeft, renamesLeft, auxVars>>

otherMeta == otherFs

\* A thread of a specification with a budget takes an upcall: one more call
\* of its budget.
Budget(t) ==
  /\ locksLeft[t] > 0
  /\ locksLeft' = [locksLeft EXCEPT ![t] = @ - 1]

Spend(t) ==
  /\ Budget(t)
  /\ UNCHANGED <<renamesLeft, auxVars>>

\* No handler is running.
Quiet == \A t \in Threads : call[t].op = "none"

\* The files that are open or being opened are fewer than the kernel may
\* hold.
FewHandles ==
  BagCardinality(handles) + Cardinality(DOMAIN dbfiles)
    + Cardinality({t \in Threads : call[t].op \in {"open", "create"}})
    < MaxHandles

\* What a step of KeyedMutex inside a handler leaves alone; it answers
\* nothing to the kernel.
otherLock ==
  <<locksLeft, renamesLeft, db, remote, cacheVars, inlineVars, auxVars>>

\* The steps of KeyedMutex inside LocalFileCache.Open and Release.
LockSteps ==
  \/ \E t \in Threads : CacheLock(t) /\ UNCHANGED otherFs
  \/ \E t \in Threads : LockEntry(t) /\ last' = NoCall /\ UNCHANGED otherLock
  \/ \E t \in Threads : LockMapRelease(t) /\ last' = NoCall /\ UNCHANGED otherLock
  \/ \E t \in Threads : LockAcquire(t) /\ last' = NoCall /\ UNCHANGED otherLock
  \/ \E t \in Threads : CacheUnlock(t) /\ UNCHANGED otherFs
  \/ \E t \in Threads : UnlockEntry(t) /\ last' = NoCall /\ UNCHANGED otherLock
  \/ \E t \in Threads : UnlockMapRelease(t) /\ last' = NoCall /\ UNCHANGED otherLock
  \/ \E t \in Threads : UnlockRelease(t) /\ last' = NoCall /\ UNCHANGED otherLock
  \/ \E t \in Threads : CacheReturn(t) /\ UNCHANGED otherFs

\* The steps of DriveFileSystem.Create and DriveFileSystem.Open after the
\* first, down to the body of LocalFileCache.Open.
OpenSteps ==
  \/ \E t \in Threads :
       HasRoom(call[t].name) /\ CreateInsert(t) /\ UNCHANGED otherFs
  \/ \E t \in Threads : OpenLookup(t) /\ UNCHANGED otherFs
  \/ \E t \in Threads, tempOk \in BOOLEAN : OpenBody(t, tempOk) /\ UNCHANGED otherFs

\* The steps of LocalFileCache.Release of a file that is not dirty.
ReleaseSteps ==
  \/ \E t \in Threads : ReleaseDeref(t) /\ UNCHANGED otherFs
  \/ \E t \in Threads : ReleaseCheck(t) /\ UNCHANGED otherFs
  \/ \E t \in Threads : ReleaseRemove(t) /\ UNCHANGED otherFs

\* The steps of LocalFileCache.Release that put a dirty file on the remote,
\* and the second step of FileReference.Write.
UploadSteps ==
  \/ \E t \in Threads : ReleaseAttempt(t) /\ UNCHANGED otherFs
  \/ \E t \in Threads : ReleaseRead(t) /\ UNCHANGED otherFs
  \/ \E t \in Threads, answered \in BOOLEAN, again \in BOOLEAN :
       ReleaseAnswer(t, answered, again) /\ UNCHANGED otherFs
  \/ \E t \in Threads : ReleaseSetId(t) /\ UNCHANGED otherFs
  \/ \E t \in Threads : ReleaseStat(t) /\ UNCHANGED otherFs
  \/ \E t \in Threads : ReleaseSetSize(t) /\ UNCHANGED otherFs
  \/ \E t \in Threads : WriteAtStep(t) /\ UNCHANGED otherFs

\* SpecMeta: two threads of the FUSE server that serve the upcalls mkdir,
\* create, unlink, rmdir, rename and opendir on the paths of a small tree,
\* and the release of a file that was created, side by side: every upcall
\* is one of the MaxLocks upcalls its thread serves.
\* The names Create, Unlink, Rmdir and OpenDir are sent for.
CreatePaths == {<<"a">>, InlineSuffix}

UnlinkPaths == {<<"a">>, InlineSuffix}

RmdirPaths == {<<"a">>, <<"a", "b">>}

ListPaths == {<<>>, <<"a">>}

\* The names Rename is sent for.
RenamePaths == {<<"a">>, <<"a", "b">>}

NextMeta ==
  \/ \E t \in Threads, name \in Paths, mode \in DirModes, id \in GeneratedIds :
       Enter(t) /\ FsMkdir(name, mode, id) /\ Spend(t)
  \/ \E t \in Threads, name \in CreatePaths, mode \in FileModes, id \in GeneratedIds :
       FewHandles /\ CreateCall(t, name, mode, id) /\ Spend(t)
  \/ OpenSteps
  \/ LockSteps
  \/ \E t \in Threads, name \in UnlinkPaths : UnlinkCall(t, name) /\ Spend(t)
  \/ \E t \in Threads, ok \in BOOLEAN : UnlinkDelete(t, ok) /\ UNCHANGED otherFs
  \/ \E t \in Threads, name \in RmdirPaths : RmdirCall(t, name) /\ Spend(t)
  \/ \E t \in Threads : RmdirDelete(t) /\ UNCHANGED otherFs
  \/ \E t \in Threads, oldName \in RenamePaths :
       \E newName \in RenamePaths \ {oldName} :
       /\ Enter(t)
       /\ renamesLeft > 0
       /\ renamesLeft' = renamesLeft - 1
       /\ FsRename(oldName, newName)
       /\ locksLeft[t] > 0
       /\ locksLeft' = [locksLeft EXCEPT ![t] = @ - 1]
       /\ UNCHANGED auxVars
  \/ \E t \in Threads, name \in ListPaths :
       Enter(t) /\ FsOpenDir(name) /\ Spend(t)
  \/ \E t \in Threads, h \in BagToSet(handles) : ReleaseCall(t, h) /\ Spend(t)
  \/ ReleaseSteps
  \/ \E t \in Threads, d \in DOMAIN dbfiles :
       Enter(t) /\ DbRelease(d) /\ Spend(t)

SpecMeta == Init /\ [][NextMeta]_vars

\* The steps of LocalFileCache.EnsureLocal after the first.
EnsureSteps ==
  \/ \E t \in Threads : EnsureBody(t) /\ UNCHANGED otherFs
  \/ \E t \in Threads, o \in FetchOutcomes :
       EnsureAttempt(t, o) /\ UNCHANGED otherFs
  \/ \E t \in Threads, broken \in BOOLEAN, again \in BOOLEAN :
       EnsureCopy(t, broken, again) /\ UNCHANGED otherFs

\* SpecFile: the upcalls that create, open, write, read, truncate, release
\* and unlink a regular file, change its mode, and make a directory of its
\* name once the name is free (the kernel looks a name up before it sends
\* mkdir, and sends no open for a directory), served side by side.
FileNames == {<<"f">>}

Offsets == {0, 1}

ReadSize == 2

NextFile ==
  \/ \E t \in Threads, name \in FileNames, mode \in FileModes, id \in GeneratedIds :
       /\ FewHandles
       /\ Cardinality(DOMAIN remote) < MaxRemote
       /\ CreateCall(t, name, mode, id)
       /\ Spend(t)
  \/ \E t \in Threads, name \in FileNames, readOnly \in BOOLEAN :
       /\ FewHandles
       /\ GetAttributes(db, name).err = "nil"
            => GetAttributes(db, name).attributes.IsRegularFile
       /\ OpenCall(t, name, readOnly)
       /\ Spend(t)
  \/ OpenSteps
  \/ LockSteps
  \/ \E t \in Threads, h \in BagToSet(handles), data \in Blocks, off \in Offsets :
       WriteCall(t, h, data, off) /\ Spend(t)
  \/ \E h \in BagToSet(handles), off \in Offsets :
       FileRead(h, off, ReadSize) /\ UNCHANGED otherFs
  \/ \E t \in Threads, h \in BagToSet(handles), size \in Offsets :
       /\ ~h.isReader
       /\ Enter(t)
       /\ FileTruncate(h, size)
       /\ Spend(t)
  \/ \E t \in Threads, h \in BagToSet(handles), mode \in ChmodModes :
       Enter(t) /\ FileChmod(h, mode) /\ Spend(t)
  \/ \E t \in Threads, name \in FileNames, mode \in ChmodModes :
       Enter(t) /\ FsChmod(name, mode) /\ Spend(t)
  \/ \E t \in Threads, h \in BagToSet(handles) : ReleaseCall(t, h) /\ Spend(t)
  \/ ReleaseSteps
  \/ \E t \in Threads : ReleaseAttempt(t) /\ UNCHANGED otherFs
  \/ \E t \in Threads : ReleaseRead(t) /\ UNCHANGED otherFs
  \/ \E t \in Threads, answered \in BOOLEAN :
       ReleaseAnswer(t, answered, FALSE) /\ UNCHANGED otherFs
  \/ \E t \in Threads : ReleaseSetId(t) /\ UNCHANGED otherFs
  \/ \E t \in Threads : ReleaseStat(t) /\ UNCHANGED otherFs
  \/ \E t \in Threads : ReleaseSetSize(t) /\ UNCHANGED otherFs
  \/ \E t \in Threads : WriteAtStep(t) /\ UNCHANGED otherFs
  \/ \E t \in Threads, name \in FileNames : UnlinkCall(t, name) /\ Spend(t)
  \/ \E t \in Threads, ok \in BOOLEAN : UnlinkDelete(t, ok) /\ UNCHANGED otherFs
  \/ \E name \in FileNames, mode \in DirModes, id \in GeneratedIds :
       /\ GetAttributes(db, name).err = "DoesNotExist"
       /\ FsMkdir(name, mode, id)
       /\ UNCHANGED otherFs

SpecFile == Init /\ [][NextFile]_vars

\* SpecOrphan: the upcalls of SpecFile that create, open, write, release and
\* unlink, served side by side while the remote answers every call (a call
\* for an id the remote does not have is still a 404).
NextOrphan ==
  \/ \E t \in Threads, name \in FileNames, mode \in FileModes, id \in GeneratedIds :
       /\ FewHandles
       /\ Cardinality(DOMAIN remote) < MaxRemote
       /\ CreateCall(t, name, mode, id)
       /\ Spend(t)
  \/ \E t \in Threads, name \in FileNames, readOnly \in BOOLEAN :
       FewHandles /\ OpenCall(t, name, readOnly) /\ Spend(t)
  \/ OpenSteps
  \/ LockSteps
  \/ \E t \in Threads, h \in BagToSet(handles), data \in Blocks, off \in Offsets :
       WriteCall(t, h, data, off) /\ Spend(t)
  \/ \E t \in Threads : WriteAtStep(t) /\ UNCHANGED otherFs
  \/ \E t \in Threads, h \in BagToSet(handles) : ReleaseCall(t, h) /\ Spend(t)
  \/ ReleaseSteps
  \/ \E t \in Threads : ReleaseAttempt(t) /\ UNCHANGED otherFs
  \/ \E t \in Threads : ReleaseRead(t) /\ UNCHANGED otherFs
  \/ \E t \in Threads : ReleaseAnswer(t, TRUE, FALSE) /\ UNCHANGED otherFs
  \/ \E t \in Threads : ReleaseSetId(t) /\ UNCHANGED otherFs
  \/ \E t \in Threads : ReleaseStat(t) /\ UNCHANGED otherFs
  \/ \E t \in Threads : ReleaseSetSize(t) /\ UNCHANGED otherFs
  \/ \E t \in Threads, name \in FileNames : UnlinkCall(t, name) /\ Spend(t)
  \/ \E t \in Threads : UnlinkDelete(t, TRUE) /\ UNCHANGED otherFs

SpecOrphan == Init /\ [][NextOrphan]_vars

\* SpecEnsure: a program that creates, opens, writes and releases a file
\* and calls LocalFileCache.EnsureLocal with a FileReference it holds. The
\* writes are not of the budget of a thread.
NextEnsure ==
  \/ \E t \in Threads, name \in FileNames, mode \in FileModes, id \in GeneratedIds :
       /\ FewHandles
       /\ Cardinality(DOMAIN remote) < MaxRemote
       /\ CreateCall(t, name, mode, id)
       /\ Spend(t)
  \/ \E t \in Threads, name \in FileNames :
       FewHandles /\ OpenCall(t, name, TRUE) /\ Spend(t)
  \/ OpenSteps
  \/ LockSteps
  \/ \E t \in Threads, h \in BagToSet(handles), data \in Blocks :
       WriteCall(t, h, data, 0) /\ UNCHANGED otherFs
  \/ \E t \in Threads, h \in BagToSet(handles) : ReleaseCall(t, h) /\ Spend(t)
  \/ ReleaseSteps
  \/ UploadSteps
  \/ \E t \in Threads, h \in BagToSet(handles) : EnsureCall(t, h) /\ Spend(t)
  \/ EnsureSteps

SpecEnsure == Init /\ [][NextEnsure]_vars

\* The steps of DbFile.Write and DbFile.Truncate after the first.
DbWriteSteps ==
  \/ \E t \in Threads : DbWritePut(t) /\ UNCHANGED otherFs
  \/ \E t \in Threads : DbWriteSetSize(t) /\ UNCHANGED otherFs

\* SpecInline: the upcalls that create, open, write, truncate, read, release
\* and unlink an inline file, served side by side.
InlineNames == {InlineSuffix}

\* The thread is serving an upcall.
Busy(t) == call[t].op # "none" \/ driveCall[t].op # "none"

\* The threads other than t that are serving an upcall.
InProgress(t) == {u \in Threads \ {t} : Busy(u)}

\* Thread t takes a step: an upcall that it starts has met nothing yet, and
\* the upcalls in progress beside it, and its own if there is one, have run
\* beside another.
Disturb(t) ==
  disturbed' = (IF Busy(t) THEN disturbed ELSE disturbed \ {t})
                 \cup InProgress(t)
                 \cup (IF InProgress(t) # {} THEN {t} ELSE {})

otherInline == <<renamesLeft, readerVars, syncVars, apiVars, moved>>

\* The first step of an upcall of thread t, and a later one.
StartInline(t) == Budget(t) /\ Disturb(t) /\ UNCHANGED otherInline

StepInline(t) == Disturb(t) /\ UNCHANGED <<locksLeft, otherInline>>

NextInline ==
  \/ \E t \in Threads, name \in InlineNames, mode \in FileModes, id \in GeneratedIds :
       FewHandles /\ CreateCall(t, name, mode, id) /\ StartInline(t)
  \/ \E t \in Threads : CreateInsert(t) /\ StepInline(t)
  \/ \E t \in Threads, name \in InlineNames, readOnly \in BOOLEAN :
       FewHandles /\ OpenCall(t, name, readOnly) /\ StartInline(t)
  \/ \E t \in Threads : OpenLookup(t) /\ StepInline(t)
  \/ \E t \in Threads, name \in InlineNames : UnlinkCall(t, name) /\ StartInline(t)
  \/ \E t \in Threads, ok \in BOOLEAN : UnlinkDelete(t, ok) /\ StepInline(t)
  \/ \E t \in Threads, d \in DOMAIN dbfiles, data \in Blocks, off \in Offsets :
       DbWriteCall(t, d, data, off) /\ StartInline(t)
  \/ \E t \in Threads, d \in DOMAIN dbfiles, size \in 0..ReadSize :
       DbTruncateCall(t, d, size) /\ StartInline(t)
  \/ \E t \in Threads : DbWritePut(t) /\ StepInline(t)
  \/ \E t \in Threads : DbWriteSetSize(t) /\ StepInline(t)
  \/ \E t \in Threads, d \in DOMAIN dbfiles, off \in Offsets :
       DbRead(t, d, off) /\ StepInline(t)
  \/ \E d \in DOMAIN dbfiles : DbRelease(d) /\ UNCHANGED otherFs

SpecInline == Init /\ [][NextInline]_vars

\* SpecRemove: SpecInline in a program that calls DB.RemoveFile as well.
NextRemove ==
  \/ NextInline
  \/ \E name \in InlineNames : RemoveFile(name) /\ UNCHANGED otherFs

SpecRemove == Init /\ [][NextRemove]_vars

\* SpecMove: the upcalls that create and write the inline file, rename it to
\* another name and back, and open and read it under either name, served
\* side by side.
MoveNames == {InlineSuffix, <<"a">>}

\* What a rename that has just returned leaves to remember: the names and
\* the content of an inline file with bytes written to it that it moved.
RenameMoved(oldName, newName) ==
  IF last'.status # "OK" THEN moved
  ELSE IF /\ oldName # newName
          /\ oldName \in DOMAIN db
          /\ readAttributes(db[oldName]).HasContent
          /\ GetFile(contentBucket, oldName) # <<>>
         THEN [from |-> oldName, to |-> newName,
               content |-> GetFile(contentBucket, oldName)]
         ELSE NoMove

otherMove == <<locksLeft, renamesLeft, readerVars, syncVars, apiVars, disturbed>>

NextMove ==
  \/ \E t \in Threads, name \in InlineNames, mode \in FileModes, id \in GeneratedIds :
       FewHandles /\ CreateCall(t, name, mode, id) /\ Spend(t)
  \/ \E t \in Threads : CreateInsert(t) /\ UNCHANGED otherFs
  \/ \E t \in Threads, name \in MoveNames, readOnly \in BOOLEAN :
       FewHandles /\ OpenCall(t, name, readOnly) /\ Spend(t)
  \/ \E t \in Threads : OpenLookup(t) /\ UNCHANGED otherFs
  \/ \E oldName \in MoveNames, newName \in MoveNames :
       /\ FsRename(oldName, newName)
       /\ moved' = RenameMoved(oldName, newName)
       /\ UNCHANGED otherMove
  \/ \E t \in Threads, d \in DOMAIN dbfiles, data \in Blocks, off \in Offsets :
       DbWriteCall(t, d, data, off) /\ Spend(t)
  \/ \E t \in Threads : DbWritePut(t) /\ moved' = NoMove /\ UNCHANGED otherMove
  \/ \E t \in Threads : DbWriteSetSize(t) /\ UNCHANGED otherFs
  \/ \E t \in Threads, d \in DOMAIN dbfiles, off \in Offsets :
       DbRead(t, d, off) /\ UNCHANGED otherFs
  \/ \E d \in DOMAIN dbfiles : DbRelease(d) /\ UNCHANGED otherFs

SpecMove == Init /\ [][NextMove]_vars

\* SpecCreate: two threads of the FUSE server, each taking Creates of a
\* regular or of an inline file, side by side.
CreateNames == {<<"f">>, InlineSuffix}

\* The ids GenerateId returns to two calls
CreateIds == {[i \in 1..IdLen |-> 17], [i \in 1..IdLen |-> 18]}

NextCreate ==
  \/ \E t \in Threads, name \in CreateNames, mode \in FileModes, id \in CreateIds :
       CreateCall(t, name, mode, id) /\ Spend(t)
  \/ OpenSteps
  \/ LockSteps

SpecCreate == Init /\ [][NextCreate]_vars

\* SpecWrite: two threads of the FUSE server. The inline file is created
\* and opened; thread t writes one byte at offset t - 1 through the DbFile
\* t, so the Writes of the two threads are through two DbFiles and to
\* ranges that do not meet.
NextWrite ==
  \/ \E t \in Threads, name \in InlineNames, mode \in FileModes, id \in GeneratedIds :
       CreateCall(t, name, mode, id) /\ Spend(t)
  \/ \E t \in Threads : CreateInsert(t) /\ UNCHANGED otherFs
  \/ \E t \in Threads, name \in InlineNames :
       OpenCall(t, name, FALSE) /\ Spend(t)
  \/ \E t \in Threads : OpenLookup(t) /\ UNCHANGED otherFs
  \/ \E t \in Threads, data \in WriteBlocks :
       DbWriteCall(t, t, data, t - 1) /\ Spend(t)
  \/ DbWriteSteps

SpecWrite == Init /\ [][NextWrite]_vars


otherReader == <<fsVars, syncVars, apiVars, extraVars>>

\* SpecReader: one FileReader on one object, read with buffers of any size.
NextReader ==
  \/ \E obj \in Objects, sequential \in BOOLEAN : \E p \in 0..Len(obj) :
       ReaderNew(obj, p, sequential) /\ UNCHANGED otherReader
  \/ \E k \in 0..MaxBuf, ok \in BOOLEAN : ReaderRead(k, ok) /\ UNCHANGED otherReader
  \/ ReaderClose /\ UNCHANGED otherReader

SpecReader == Init /\ [][NextReader]_vars

\* SpecDrive: the reads, writes, flushes and truncates of the kernel on
\* one DriveFile, served side by side. The kernel knows the size of the
\* file and starts no read behind its end, and it writes one byte at a
\* time, to a buffer of at most MaxDirty bytes.
\* The objects a DriveFile is made for, and the sizes of the buffers the
\* kernel reads it with.
DriveObjects == {[i \in 1..n |-> i] : n \in {1, 3}}

DriveReadSizes == 0..MaxBuf

otherDrive ==
  <<mutexes, objs, mapMutex, key, mtx, renamesLeft, metaVars, cacheVars,
    inlineVars, syncVars, apiVars, moved>>

\* The upcalls the threads have taken of those they may take.
RECURSIVE Taken(_)
Taken(n) == IF n = 0 THEN 0 ELSE (MaxLocks - locksLeft[n]) + Taken(n - 1)

\* The first step of a method of thread t, one of DriveCalls upcalls at
\* most, and a later one.
StartDrive(t) ==
  /\ Taken(NumThreads) < DriveCalls
  /\ Budget(t)
  /\ Disturb(t)
  /\ UNCHANGED otherDrive

StepDrive(t) == Disturb(t) /\ UNCHANGED <<locksLeft, otherDrive>>

NextDrive ==
  \/ \E obj \in DriveObjects :
       DriveOpen(obj) /\ UNCHANGED <<locksLeft, disturbed, otherDrive>>
  \/ \E t \in Threads, k \in DriveReadSizes : \E off \in 0..Len(object) :
       DriveReadCall(t, k, off) /\ StartDrive(t)
  \/ \E t \in Threads : DriveReadPass(t) /\ StepDrive(t)
  \/ \E t \in Threads : DriveReadSetPos(t) /\ StepDrive(t)
  \/ \E t \in Threads : DriveReadCheckPos(t) /\ StepDrive(t)
  \/ \E t \in Threads : DriveReadNewReader(t) /\ StepDrive(t)
  \/ \E t \in Threads : DriveReadFull(t) /\ StepDrive(t)
  \/ \E t \in Threads : DriveBufRead(t) /\ StepDrive(t)
  \/ \E t \in Threads, ok \in BOOLEAN, eofErr \in EofErrors :
       DriveReadResponse(t, ok, eofErr) /\ StepDrive(t)
  \/ \E t \in Threads : DriveReadAdvance(t) /\ StepDrive(t)
  \/ \E t \in Threads : DriveReadReturn(t) /\ StepDrive(t)
  \/ \E t \in Threads, data \in Blocks, off \in 0..(MaxDirty - 1) :
       DriveWriteCall(t, data, off) /\ StartDrive(t)
  \/ \E t \in Threads : DriveWriteMake(t) /\ StepDrive(t)
  \/ \E t \in Threads : DriveWriteSource(t) /\ StepDrive(t)
  \/ \E t \in Threads : DriveWriteCopyOld(t) /\ StepDrive(t)
  \/ \E t \in Threads : DriveWriteAssign(t) /\ StepDrive(t)
  \/ \E t \in Threads : DriveWriteTarget(t) /\ StepDrive(t)
  \/ \E t \in Threads : DriveWriteCopy(t) /\ StepDrive(t)
  \/ \E t \in Threads : DriveFlushCall(t) /\ StartDrive(t)
  \/ \E t \in Threads : DriveFlushMedia(t) /\ StepDrive(t)
  \/ \E t \in Threads : DriveFlushSend(t) /\ StepDrive(t)
  \/ \E t \in Threads, ok \in BOOLEAN : DriveFlushDo(t, ok) /\ StepDrive(t)
  \/ \E t \in Threads, size \in {0, 1} :
       DriveTruncateCall(t, size) /\ StartDrive(t)
  \/ \E t \in Threads, ok \in BOOLEAN : DriveTruncateDo(t, ok) /\ StepDrive(t)
  \/ \E t \in Threads : DriveDoReturn(t) /\ StepDrive(t)

SpecDrive == Init /\ [][NextDrive]_vars

otherSync == <<fsVars, readerVars, apiVars, extraVars>>

\* SpecSync: the threads that call EnqueueFile, the worker, and the process
\* stopping and starting.
NextSync ==
  \/ \E upload \in Uploads : EnqueuePersist(upload) /\ UNCHANGED otherSync
  \/ EnqueueSend /\ UNCHANGED otherSync
  \/ WorkerReceive /\ UNCHANGED otherSync
  \/ WorkerOpen /\ UNCHANGED otherSync
  \/ \E ok \in BOOLEAN : WorkerRemote(ok) /\ UNCHANGED otherSync
  \/ WorkerClose /\ UNCHANGED otherSync
  \/ WorkerRemove /\ UNCHANGED otherSync
  \/ WorkerDequeue /\ UNCHANGED otherSync
  \/ Stop /\ UNCHANGED otherSync
  \/ WorkerQuit /\ UNCHANGED otherSync
  \/ ProcessStop /\ UNCHANGED otherSync
  \/ ProcessStart /\ UNCHANGED otherSync

SpecSync == Init /\ [][NextSync]_vars

\* The worker is a goroutine that runs whenever it can: it takes what is in
\* the channel and takes every step of the upload it began; a request to the
\* remote that can succeed does not fail forever. The select of the worker picks at random among
\* the cases that are ready, so a quit that is ready at every select is
\* received at one of them.
SpecSyncLive ==
  /\ SpecSync
  /\ WF_vars(WorkerReceive /\ UNCHANGED otherSync)
  /\ WF_vars(WorkerOpen /\ UNCHANGED otherSync)
  /\ WF_vars(\E ok \in BOOLEAN : WorkerRemote(ok) /\ UNCHANGED otherSync)
  /\ SF_vars(WorkerRemote(TRUE) /\ UNCHANGED otherSync)
  /\ WF_vars(WorkerClose /\ UNCHANGED otherSync)
  /\ WF_vars(WorkerRemove /\ UNCHANGED otherSync)
  /\ WF_vars(WorkerDequeue /\ UNCHANGED otherSync)
  /\ SF_vars(WorkerQuit /\ UNCHANGED otherSync)

otherApi == <<fsVars, readerVars, syncVars, extraVars>>

\* SpecApi: the calls of the remote methods, one at a time.
NextApi ==
  \/ \E method \in Methods, size \in 0..MaxUpload :
       ApiStart(method, size) /\ UNCHANGED otherApi
  \/ \E o \in Outcomes, stop \in BOOLEAN, read \in 0..MaxUpload :
       ApiAttempt(o, stop, read) /\ UNCHANGED otherApi
  \/ ApiDone /\ UNCHANGED otherApi

SpecApi == Init /\ [][NextApi]_vars

\* SpecAttr: records of every shape stored under one path and read back.
NextAttr ==
  \E attributes \in AttrRecords :
    AttrSetGet(<<"a">>, attributes) /\ UNCHANGED otherFs

SpecAttr == Init /\ [][NextAttr]_vars

\* SpecCache: two threads of the FUSE server that create, open, write and
\* release the files of two names side by side.
NextCache ==
  \/ \E t \in Threads, name \in Keys, mode \in FileModes, id \in GeneratedIds :
       CreateCall(t, name, mode, id) /\ Spend(t)
  \/ \E t \in Threads, name \in Keys, readOnly \in BOOLEAN :
       OpenCall(t, name, readOnly) /\ Spend(t)
  \/ OpenSteps
  \/ LockSteps
  \/ \E t \in Threads, h \in BagToSet(handles) : ReleaseCall(t, h) /\ Spend(t)
  \/ ReleaseSteps
  \/ \E t \in Threads, h \in BagToSet(handles), data \in Blocks :
       WriteCall(t, h, data, 0) /\ Spend(t)
  \/ UploadSteps

SpecCache == Init /\ [][NextCache]_vars

\* SpecUpload: one file that is created, written, released, opened again,
\* written and released: the second Release finds the id that the first one
\* has stored.
NextUpload ==
  \/ \E t \in Threads, name \in FileNames, mode \in FileModes, id \in GeneratedIds :
       FewHandles /\ CreateCall(t, name, mode, id) /\ Spend(t)
  \/ \E t \in Threads, name \in FileNames, readOnly \in BOOLEAN :
       FewHandles /\ OpenCall(t, name, readOnly) /\ Spend(t)
  \/ OpenSteps
  \/ LockSteps
  \/ \E t \in Threads, h \in BagToSet(handles), data \in Blocks :
       WriteCall(t, h, data, 0) /\ UNCHANGED otherFs
  \/ \E t \in Threads, h \in BagToSet(handles) : ReleaseCall(t, h) /\ Spend(t)
  \/ ReleaseSteps
  \/ UploadSteps

SpecUpload == Init /\ [][NextUpload]_vars


(***************************************************************************)
(* Claims about KeyedMutex.                                                *)
(***************************************************************************)
\* The threads between the return of Lock(k) and the call of Unlock(k).
Holders(k) == {t \in Threads : pc[t] = "held" /\ key[t] = k}

\* The threads that hold k or wait for it: they bumped the entry's count in
\* Lock and have not yet decremented it in Unlock.
Users(k) ==
  {t \in Threads : key[t] = k /\ pc[t] \in {"L_unmap", "L_wait", "held", "U_map"}}

\* C3: for every key at most one thread at a time is between the return of
\* its Lock(key) and its matching Unlock(key).
C3_MutualExclusion ==
  \A k \in Keys : Cardinality(Holders(k)) <= 1

\* One thread holds a key while the other waits for that same key.
C3_Witness ==
  \E k \in Keys : \E t, u \in Threads :
    /\ t # u
    /\ pc[t] = "held" /\ key[t] = k
    /\ pc[u] = "L_wait" /\ key[u] = k

\* C4: the map holds an entry for a key exactly while some thread holds or
\* waits on the key, the entry's count is the number of these threads, and
\* once every thread is back from its last Unlock the map is empty.
C4_MapTracksUsers ==
  /\ \A k \in Keys :
       IF Users(k) = {}
         THEN k \notin DOMAIN mutexes
         ELSE /\ k \in DOMAIN mutexes
              /\ objs[mutexes[k]].count = Cardinality(Users(k))
  /\ DOMAIN mutexes \subseteq Keys
  /\ (\A t \in Threads : pc[t] = "idle") => mutexes = <<>>

\* Every thread has used up its Lock calls and is back from the matching
\* Unlock: the map is empty again.
C4_Witness ==
  /\ \A t \in Threads : pc[t] = "idle" /\ locksLeft[t] = 0
  /\ mutexes = <<>>

(***************************************************************************)
(* Claims about LocalFileCache (SpecCache)                                 *)
(***************************************************************************)
\* The working copies of a name: the local files made for it and not yet
\* closed and removed.
WorkingCopies(name) ==
  {a \in DOMAIN rfs : rfs[a].name = name /\ rfs[a].open}

\* The FileReferences of a name the kernel holds.
HandlesOf(name) ==
  [h \in {x \in BagToSet(handles) : x.name = name} |-> handles[h]]

\* The references to a name that count: the FileReferences the kernel holds,
\* those an Open has made and not yet returned, and those a Release has been
\* given and not yet taken off the count.
References(name) ==
  BagCardinality(HandlesOf(name))
    + Cardinality({t \in Threads : /\ call[t].op \in {"open", "create"}
                                   /\ call[t].name = name
                                   /\ call[t].stage \in {"unlock", "unlocking"}
                                   /\ call[t].ref # NoRef})
    + Cardinality({t \in Threads : /\ call[t].op = "release"
                                   /\ call[t].name = name
                                   /\ call[t].stage \in {"lock", "body"}})

\* C1: under any interleaving of Open and Release a path has at most one
\* working copy; every reference to the path wraps that one local file, and
\* its refcount is the number of references, so an Open that finds the copy
\* returns the same file and adds one to the count.
C1_OneWorkingCopy ==
  \A name \in Keys :
    /\ Cardinality(WorkingCopies(name)) <= 1
    /\ IF name \in DOMAIN files
         THEN /\ files[name] \in WorkingCopies(name)
              /\ rfs[files[name]].count = References(name)
              /\ \A h \in DOMAIN HandlesOf(name) : h.file = files[name]
              /\ \A t \in Threads :
                   call[t].op \in {"open", "create"} /\ call[t].name = name
                     /\ call[t].stage \in {"unlock", "unlocking"}
                     /\ call[t].ref # NoRef
                   => call[t].ref.file = files[name]
         ELSE References(name) = 0

\* An Open has found the working copy of its name and made its count two,
\* while the kernel holds the first reference to the same file.
C1_Witness ==
  \E t \in Threads :
    /\ call[t].op = "open"
    /\ call[t].stage = "unlock"
    /\ call[t].ref # NoRef
    /\ rfs[call[t].ref.file].count = 2
    /\ \E h \in BagToSet(handles) :
         h.name = call[t].name /\ h.file = call[t].ref.file

\* C2: a Release uploads only when it brings the refcount to zero and the
\* working copy is dirty: a Release that leaves the refcount above zero makes
\* no remote create or update, and a Release makes at most one.
C2_UploadOnlyAtZero ==
  \A t \in Threads :
    call[t].op = "release" /\ call[t].stage \in {"remove", "unlock", "unlocking"}
    => /\ call[t].calls <= 1
       /\ call[t].calls = 1
            => rfs[call[t].refs].count = 0 /\ rfs[call[t].refs].dirty

(***************************************************************************)
(* Claims about metadb.DB and DriveFileSystem (SpecMeta)                   *)
(***************************************************************************)
\* The records a rename of a is to move: a itself and every a/x.
Subtree(b, a) ==
  {k \in DOMAIN b : k = a \/ HasPrefix(k, a \o <<"/">>)}

\* The path under newName that corresponds to k under oldName.
Moved(k, oldName, newName) ==
  newName \o SubSeq(k, Len(oldName) + 1, Len(k))

\* C5: after a successful rename(a, b), for the record at a and every
\* descendant a/x, the old path is DoesNotExist and the corresponding path
\* under b has exactly the attributes the old path had before.
C5_RenameMovesSubtree ==
  [][last'.op = "rename" /\ last'.status = "OK"
     => \A k \in Subtree(db, last'.a) :
          /\ GetAttributes(db', k).err = "DoesNotExist"
          /\ GetAttributes(db', Moved(k, last'.a, last'.b)).err = "nil"
          /\ GetAttributes(db', Moved(k, last'.a, last'.b)).attributes
               = GetAttributes(db, k).attributes]_vars

\* C6: rename(old, new) returns ENOENT when old has no record, and EINVAL
\* when old has one and new has one too; after either failure every record
\* is as it was.
C6_RenameFailures ==
  [][last'.op = "rename"
     => /\ last'.a \notin DOMAIN db => last'.status = "ENOENT"
        /\ last'.a \in DOMAIN db /\ last'.b \in DOMAIN db
             => last'.status = "EINVAL"
        /\ last'.status \in {"ENOENT", "EINVAL"} => db' = db]_vars

\* A rename has been refused with EINVAL: both names have a record.
C6_Witness ==
  /\ last.op = "rename"
  /\ last.status = "EINVAL"
  /\ last.a \in DOMAIN db
  /\ last.b \in DOMAIN db

\* The names of the direct children of a: the records at a + "/" + name (for
\* the root, at name) with no "/" in name.
DirectChildren(b, a) ==
  {TrimPrefix(k, IF a = <<>> THEN a ELSE a \o <<"/">>) :
     k \in {x \in DOMAIN b : /\ x # a
                             /\ a # <<>> => HasPrefix(x, a \o <<"/">>)
                             /\ ~ContainsSlash(TrimPrefix(x,
                                   IF a = <<>> THEN a ELSE a \o <<"/">>))}}

\* C7: list(a) returns exactly the direct children of a, by their names
\* relative to a; a itself, deeper descendants and paths such as "ab" that
\* only start with the string a are absent.
C7_ListDirectChildren ==
  last.op = "opendir" /\ last.status = "OK"
  => /\ {last.out[i].Name : i \in 1..Len(last.out)} = DirectChildren(db, last.a)
     /\ Len(last.out) = Cardinality(DirectChildren(db, last.a))

\* C8: list(prefix) of a non-empty prefix that has no record of its own is
\* DoesNotExist, whatever other records there are; list("") never is.
C8_ListDoesNotExist ==
  last.op = "opendir"
  => /\ last.a # <<>> /\ last.a \notin DOMAIN db => last.err = "DoesNotExist"
     /\ last.a = <<>> => last.err # "DoesNotExist"

\* A list of a prefix with no record of its own has returned DoesNotExist
\* although records under the prefix exist.
C8_Witness ==
  /\ last.op = "opendir"
  /\ last.a # <<>>
  /\ last.a \notin DOMAIN db
  /\ \E k \in DOMAIN db : HasPrefix(k, last.a \o <<"/">>)
  /\ last.err = "DoesNotExist"

\* C9: rmdir returns not-empty when the path has children and not-a-directory
\* when its record is a regular file, and deletes the record only when the
\* path is an empty directory: after a not-empty or not-a-directory the record
\* is still there, unchanged.
C9_RmdirKeepsRecord ==
  [][last'.op = "rmdir"
     => /\ last'.a \in DOMAIN db /\ DirectChildren(db, last'.a) # {}
             => last'.status = "ENOTEMPTY"
        /\ (/\ last'.a \in DOMAIN db
            /\ DirectChildren(db, last'.a) = {}
            /\ GetAttributes(db, last'.a).attributes.IsRegularFile)
             => last'.status = "ENOTDIR"
        /\ last'.status \in {"ENOTEMPTY", "ENOTDIR"} => db' = db
        /\ db' # db
             => /\ ~GetAttributes(db, last'.a).attributes.IsRegularFile
                /\ DirectChildren(db, last'.a) = {}
                /\ db' = MapDelete(db, last'.a)]_vars

\* C10: create on a path that has a record returns EINVAL and no file handle,
\* and leaves the record (and the working copies) as they were: a Create
\* that finds a record answers at once, and only a Create that finds none
\* goes on.
C10_CreateExisting ==
  [][/\ \A t \in Threads :
          call[t].op = "none" /\ call'[t].op = "create"
            => call'[t].name \notin DOMAIN db
     /\ \A t \in Threads, name \in FilePaths, mode \in FileModes, id \in GeneratedIds :
          CreateCall(t, name, mode, id) /\ name \in DOMAIN db
            => /\ last' = Returned("create", name, <<>>, "EINVAL", "nil", "nil")
               /\ db' = db
               /\ UNCHANGED <<files, rfs, handles, call>>]_vars

\* A create has been refused with EINVAL on a path that has a record.
C10_Witness ==
  /\ last.op = "create"
  /\ last.status = "EINVAL"
  /\ last.out = "nil"
  /\ last.a \in DOMAIN db

(***************************************************************************)
(* C11: for a path whose record carries the id of a live remote object, a  *)
(* read through a FileReference on a working copy without local writes     *)
(* returns the bytes of the remote object (the requested range of them):   *)
(* a file that was created, written, released and uploaded reads back its  *)
(* content when it is opened again.                                        *)
(***************************************************************************)
\* The record of the path names a live remote object.
RemoteBacked(b, rem, name) ==
  /\ GetAttributes(b, name).err = "nil"
  /\ GetAttributes(b, name).attributes.Id # EmptyId
  /\ RemoteHas(rem, GetAttributes(b, name).attributes.Id)

C11_ReadReturnsRemote ==
  [][(/\ last'.op = "read"
      /\ RemoteBacked(db, remote, last'.a)
      /\ last'.a \in DOMAIN files
      /\ ~rfs[files[last'.a]].dirty)
       => last'.out = ReadAt(remote[GetAttributes(db, last'.a).attributes.Id].data,
                             last'.b[1], last'.b[2])]_vars

(***************************************************************************)
(* C12: a FileReader made at position p <= L of an object of length L and  *)
(* read with buffers of any sizes returns the bytes [p, L) in order and    *)
(* then end-of-file: the bytes returned so far are the bytes of the object *)
(* from p on, position is p plus their number and never more than L, a     *)
(* Read reports end-of-file only when all of [p, L) was returned, and a    *)
(* Read whose requests succeed reports nothing but success or end-of-file. *)
(***************************************************************************)
C12_ReaderReturnsRange ==
  fileReader.made =>
    /\ readLog.got = SubSeq(object, readLog.start + 1,
                            readLog.start + Len(readLog.got))
    /\ fileReader.position = readLog.start + Len(readLog.got)
    /\ fileReader.position <= Len(object)
    /\ readLog.err = "EOF" => fileReader.position = Len(object)
    /\ readLog.err \in {"none", "nil", "EOF", "error"}

(***************************************************************************)
(* C13: a read of the kernel on a DriveFile whose range goes past the end  *)
(* of the file, with every request to the remote succeeding and no other   *)
(* upcall of the file beside it, returns the bytes up to the end of the    *)
(* file with status OK: the end of the file is not reported as an I/O      *)
(* error.                                                                  *)
(***************************************************************************)
C13_ShortReadAtEof ==
  (/\ driveLast.op = "read"
   /\ disturbed = {}
   /\ driveLast.ok
   /\ driveLast.off + driveLast.len > Len(object))
    => /\ driveLast.status = "OK"
       /\ driveLast.data = SubSeq(object, driveLast.off + 1, Len(object))

(***************************************************************************)
(* C14: the upload queue survives a restart. When the process starts,      *)
(* NewSyncer puts on the channel of the worker every upload that was       *)
(* enqueued (EnqueueFile returned nil) and has not been uploaded.          *)
(***************************************************************************)
C14_QueueSurvivesRestart ==
  [][(~syncer.running /\ syncer'.running)
       => \A upload \in syncLog.pending :
            \E i \in 1..Len(queue') : queue'[i] = upload]_vars

(***************************************************************************)
(* C15: a failed upload is retried. After an attempt of the worker for an  *)
(* upload has failed, the worker attempts that upload again, unless the    *)
(* worker or the process has stopped.                                      *)
(***************************************************************************)
C15_FailedUploadRetried ==
  \A upload \in Uploads :
    (syncLog.last = [upload |-> upload, err |-> "error"])
      ~> (\/ syncer.pc = "upload" /\ syncer.upload = upload
          \/ syncer.pc = "stopped"
          \/ ~syncer.running)

(***************************************************************************)
(* C16: every remote method attempts the call again after an attempt that  *)
(* ended with a retryable status (as long as the time of the backoff is    *)
(* not up), makes no attempt after an attempt that ended with a permanent  *)
(* status and then returns an error, and returns success only if an        *)
(* attempt received a 2xx response.                                        *)
(***************************************************************************)
\* The attempt ended with a status that is not a success.
Unsuccessful(at) == at.status # 0 /\ ~isHttpSuccess(at.status)

C16_RetryUntilPermanent ==
  LET n == Len(apiCall.attempts)
  IN (apiCall.state # "idle" /\ ~(apiCall.method = "ReadAt" /\ apiCall.size = 0))
       => /\ \A i \in 1..n :
               (Unsuccessful(apiCall.attempts[i])
                  /\ IsPermanentError(apiCall.attempts[i].status))
                 => /\ i = n
                    /\ apiCall.state = "returned"
                    /\ apiCall.result = "error"
          /\ (/\ apiCall.state = "returned"
              /\ n > 0
              /\ Unsuccessful(apiCall.attempts[n])
              /\ ~IsPermanentError(apiCall.attempts[n].status))
               => apiCall.stopped
          /\ (apiCall.state = "returned" /\ apiCall.result = "nil")
               => \E i \in 1..n : /\ isHttpSuccess(apiCall.attempts[i].status)
                                  /\ ~apiCall.attempts[i].failed

(***************************************************************************)
(* C17: the classification of http statuses. IsPermanentError answers true *)
(* for 400, 401, 404 and for every status that is not in its table, 416    *)
(* among them, and false for 403, 429 and 500.                             *)
(***************************************************************************)
C17_StatusClassification ==
  \A i \in 1..Len(apiCall.attempts) :
    LET at == apiCall.attempts[i]
    IN at.class # "none" =>
         /\ at.status \in {400, 401, 404} => at.class = "permanent"
         /\ at.status \in {403, 429, 500} => at.class = "retryable"
         /\ at.status \notin {400, 401, 403, 404, 429, 500}
              => at.class = "permanent"

C17_Witness ==
  /\ apiCall.attempts # <<>>
  /\ apiCall.attempts[Len(apiCall.attempts)].status = 416
  /\ apiCall.attempts[Len(apiCall.attempts)].class = "permanent"

(***************************************************************************)
(* C18: unlink issues a delete on the remote only if the record it deleted *)
(* carried a real remote id: none for a record whose id is the empty id,   *)
(* none for an inline file (HasContent).                                   *)
(***************************************************************************)
C18_DeleteOnlyRealId ==
  [][\A t \in Threads :
       (call[t].op = "unlink" /\ call[t].stage = "delete"
          /\ call'[t].op = "none")
         => /\ call[t].attributes.Id # EmptyId
            /\ ~call[t].attributes.HasContent]_vars

(***************************************************************************)
(* C19: after any sequence of create, write, truncate and unlink, a path   *)
(* has an entry in the content bucket if and only if its record exists     *)
(* with HasContent = true.                                                 *)
(***************************************************************************)
C19_ContentIffHasContent ==
  \A path \in InlineNames :
    path \in DOMAIN contentBucket
      <=> /\ GetAttributes(db, path).err = "nil"
          /\ GetAttributes(db, path).attributes.HasContent

(***************************************************************************)
(* C20: for an inline file, when a DbFile.Write or a DbFile.Truncate        *)
(* returns OK and no other upcall was in progress while it ran, the size   *)
(* in the record of the path is the length of the inline content stored    *)
(* for it.                                                                 *)
(***************************************************************************)
C20_SizeIsContentLength ==
  [][\A t \in Threads :
       (/\ call[t].op \in {"dbwrite", "dbtruncate"}
        /\ call'[t].op = "none"
        /\ last'.status = "OK"
        /\ t \notin disturbed')
         => /\ GetAttributes(db', call[t].name).err = "nil"
            /\ GetAttributes(db', call[t].name).attributes.HasContent
            /\ GetAttributes(db', call[t].name).attributes.Size
                 = Len(GetFile(contentBucket', call[t].name))]_vars

\* A Write that met no other upcall has returned OK, and the file has the
\* two bytes that it stored.
C20_Witness ==
  /\ Quiet
  /\ disturbed = {}
  /\ last.op = "dbwrite"
  /\ last.status = "OK"
  /\ Len(GetFile(contentBucket, last.a)) = 2
  /\ GetAttributes(db, last.a).attributes.Size = 2

(***************************************************************************)
(* C21: the encoding of attributes round-trips. For a record of any id     *)
(* length, size, mode, IsRegularFile and HasContent, readAttributes of the *)
(* serialised bytes is the record, and GetAttributes(p) after              *)
(* SetAttributes(p, a) returns a.                                          *)
(***************************************************************************)
C21_AttributesRoundTrip ==
  last.op = "setattributes"
    => /\ last.out.decoded = last.b
       /\ last.out.got = [err |-> "nil", attributes |-> last.b]

C21_Witness ==
  /\ last.op = "setattributes"
  /\ last.b.Id = <<65, 255>>
  /\ last.b.Size = 2147483647
  /\ last.b.Mode = 16777216
  /\ last.b.HasContent
  /\ ~last.b.IsRegularFile
  /\ last.out.got.attributes = last.b

(***************************************************************************)
(* C22: after any sequence of file system operations, every record with    *)
(* IsRegularFile = false has Size 0 and HasContent = false.                *)
(***************************************************************************)
C22_DirectoryRecords ==
  \A path \in DOMAIN db :
    ~readAttributes(db[path]).IsRegularFile
      => /\ readAttributes(db[path]).Size = 0
         /\ ~readAttributes(db[path]).HasContent

(***************************************************************************)
(* C23: an Unlock(name) by a caller that does not hold name always panics, *)
(* also while another thread holds or waits on name, and never releases a *)
(* lock that another thread holds: the caller leaves the map lookup only  *)
(* into the panic, and a thread that holds a key finds its countMutex     *)
(* locked.                                                                 *)
(***************************************************************************)
NotHolder(t) == pc[t] = "U_map" /\ mtx[t] = NoObj

C23_DoubleUnlockPanics ==
  /\ [][\A t \in Threads :
          NotHolder(t) /\ pc'[t] # pc[t] => pc'[t] = "panic"]_vars
  /\ [](\A u \in Threads : pc[u] = "held" => objs[mtx[u]].locked)

(***************************************************************************)
(* C30: no countMutex is used again once its count has dropped to zero and *)
(* its entry has left the map: the lookup of a Lock never hands out an     *)
(* object whose count is zero, and a thread inside Lock, or holding the    *)
(* key, works on the object the map has for its key.                       *)
(***************************************************************************)
InLock(t) == pc[t] \in {"L_unmap", "L_wait", "held"}

C30_NoReuseAcrossZero ==
  /\ [][\A t \in Threads :
          pc[t] = "L_map" /\ pc'[t] = "L_unmap"
            => \/ mtx'[t] \notin DOMAIN objs
               \/ objs[mtx'[t]].count > 0]_vars
  /\ [](\A t \in Threads :
          InLock(t) => /\ key[t] \in DOMAIN mutexes
                       /\ mutexes[key[t]] = mtx[t])

\* One thread is on its way out of Unlock with the evicted countMutex of a
\* key (count zero, not yet unlocked); the other thread has called Lock on
\* the same key since and has a countMutex of its own.
C30_Witness ==
  \E t, u \in Threads :
    /\ pc[t] \in {"U_unmap", "U_unlock"}
    /\ objs[mtx[t]].count = 0
    /\ mtx[t] \notin MapValues(mutexes)
    /\ InLock(u)
    /\ key[u] = key[t]
    /\ mtx[u] # mtx[t]

(***************************************************************************)
(* C24: shutdown of the upload worker is cooperative. Once Stop is called  *)
(* while the worker runs, the worker leaves its loop and Stop returns      *)
(* (unless the process dies first); an upload in flight ends as an attempt *)
(* of the worker before the worker does anything else; and a worker that   *)
(* has received the quit signal starts no upload.                          *)
(***************************************************************************)
C24_CooperativeShutdown ==
  /\ (syncer.stop = "sending" /\ syncer.pc # "stopped")
       ~> (\/ syncer.pc = "stopped" /\ syncer.stop = "returned"
           \/ ~syncer.running)
  /\ [][(syncer.pc = "upload" /\ syncer'.running /\ syncer' # syncer
           /\ syncer'.pc # "upload")
          => /\ syncer'.pc = "select"
             /\ syncLog'.last.upload = syncer.upload]_vars
  /\ [][(syncer.pc = "stopped" /\ syncer.running /\ syncer'.running)
          => syncer'.pc = "stopped"]_vars

\* Stop has returned and the worker has left its loop: its last upload went
\* through, and what is still in the channel stays there.
C24_Witness ==
  /\ syncer.running
  /\ syncer.stop = "returned"
  /\ syncer.pc = "stopped"
  /\ syncLog.last.err = "nil"
  /\ queue # <<>>

(***************************************************************************)
(* C25: the Release that uploads a dirty working copy calls the remote     *)
(* create if and only if the id of the working copy is EmptyId, and else   *)
(* the remote update with that id; update is never called with EmptyId.    *)
(***************************************************************************)
C25_CreateIffEmptyId ==
  [][\A t \in Threads :
       (/\ call[t].op = "release"
        /\ call[t].stage = "attempt"
        /\ call'[t].attempts = call[t].attempts + 1)
         => /\ call'[t].sent.method \in {"create", "update"}
            /\ call'[t].sent.method = "create"
                 <=> rfs[call[t].refs].id = EmptyId
            /\ call'[t].sent.method = "update"
                 => /\ call'[t].sent.id = rfs[call[t].refs].id
                    /\ call'[t].sent.id # EmptyId]_vars

\* A Release has called update with the id that an earlier Release got from
\* create.
C25_Witness ==
  \E t \in Threads :
    /\ call[t].op = "release"
    /\ call[t].sent.method = "update"
    /\ call[t].sent.id \in DOMAIN remote

(***************************************************************************)
(* C26: SetId is applied only after a remote create that succeeded. A      *)
(* Release changes the id of a path only to the id of the object the       *)
(* remote has created for it; when the create fails the id stays what it   *)
(* was (EmptyId) and nothing else is written in its place.                 *)
(***************************************************************************)
C26_SetIdOnlyAfterCreate ==
  [][\A t \in Threads :
       (call[t].op = "release" /\ call[t].stage = "setid"
          /\ call'[t].stage = "stat")
         => \/ /\ call[t].newid \in DOMAIN remote
               /\ \A name \in DOMAIN db \cap DOMAIN db' :
                    readAttributes(db'[name]).Id # readAttributes(db[name]).Id
                      => readAttributes(db'[name]).Id = call[t].newid
            \/ db' = db]_vars

(***************************************************************************)
(* C27: during the release of a dirty working copy the remote create or    *)
(* update is never made while the lock of the path is held: whoever makes  *)
(* the remote call of a Release does not hold the KeyedMutex of the name   *)
(* at that step.                                                           *)
(***************************************************************************)
C27_NoUploadUnderLock ==
  [][\A t \in Threads :
       (call[t].op = "release" /\ call[t].stage = "attempt"
          /\ call'[t].attempts > call[t].attempts)
         => ~(pc[t] = "held" /\ key[t] = call[t].name)]_vars

(***************************************************************************)
(* C28: a Read of the FileReader whose buffer reaches over the end of the  *)
(* current http body, with bytes of the file left to fill it and every     *)
(* request succeeding, goes on with a new ranged request and returns a     *)
(* full buffer and no error.                                               *)
(***************************************************************************)
C28_ReadAcrossRequests ==
  (/\ fileReader.made
   /\ readLog.err \notin {"none", "error"}
   /\ readLog.len <= Len(object) - (fileReader.position - readLog.n))
    => /\ readLog.n = readLog.len
       /\ readLog.err = "nil"

(***************************************************************************)
(* C29: a read of a DriveFile at an offset that is not the position of its *)
(* reader opens a new stream at that offset and sets the tracked position  *)
(* to it: with the upcalls of the file served one after the other, after a *)
(* read at off that returned n > 0 bytes readerPosition is off + n, and    *)
(* the bytes a read returns are the bytes at its offset.                   *)
(***************************************************************************)
C29_PositionFollowsOffset ==
  (/\ driveLast.op = "read"
   /\ disturbed = {}
   /\ driveLast.status = "OK"
   /\ driveLast.len > 0)
    => /\ driveFile.readerPosition = driveLast.off + Len(driveLast.data)
       /\ driveLast.data = SubSeq(object, driveLast.off + 1,
                                  driveLast.off + driveLast.len)

(***************************************************************************)
(* C32: no remote object is orphaned while the remote answers every call:  *)
(* after any sequence of create, open, write, release and unlink, when no  *)
(* upcall is running, every object created on the remote and not deleted   *)
(* there is the id of exactly one record of the database.                  *)
(***************************************************************************)
C32_NoOrphan ==
  Quiet =>
    \A id \in DOMAIN remote :
      remote[id].live
        => Cardinality({name \in DOMAIN db : readAttributes(db[name]).Id = id}) = 1

(***************************************************************************)
(* C33: when a remote Create or Update is attempted again after a failed   *)
(* attempt, the new attempt sends the whole content from offset 0, not     *)
(* what is left of a reader that the failed attempt has read from.         *)
(***************************************************************************)
C33_RetrySendsWholeContent ==
  apiCall.method \in {"Create", "Update"}
    => \A i \in 1..Len(apiCall.attempts) : apiCall.attempts[i].from = 0

(***************************************************************************)
(* C34: rename keeps the content of an inline file. After a successful     *)
(* rename(a, b) of a record with HasContent that has bytes written under   *)
(* a, a DbFile.Read of b at an offset returns the bytes from that offset   *)
(* of the content that was written under a.                                *)
(***************************************************************************)
C34_RenameMovesContent ==
  (/\ moved # NoMove
   /\ last.op = "dbread"
   /\ last.status = "OK"
   /\ last.a = moved.to)
    => last.out = SubSeq(moved.content, last.b[1] + 1, Len(moved.content))

(***************************************************************************)
(* C35: of two Create calls for one path that run side by side at most one *)
(* succeeds: no two threads are both in a Create of the same name with the *)
(* record of the name inserted by each.                                    *)
(***************************************************************************)
\* The thread is in a Create and has inserted the record of its name.
Inserted(t) == call[t].op = "create" /\ call[t].stage # "insert"

C35_OneCreateSucceeds ==
  \A t, u \in Threads :
    (t # u /\ Inserted(t) /\ Inserted(u)) => call[t].name # call[u].name

(***************************************************************************)
(* C36: two Writes to ranges that do not meet, made side by side through   *)
(* two DbFiles of one inline file, are both in the stored content once     *)
(* both have returned, and the stored Size is then the length of the       *)
(* content.                                                                *)
(***************************************************************************)
\* The Write that returned last on the DbFile d.
Wrote(d) == dbfiles[d].wrote[1]

C36_NoLostWrite ==
  (/\ Quiet
   /\ Cardinality(DOMAIN dbfiles) = 2
   /\ \A d \in DOMAIN dbfiles : dbfiles[d].wrote # <<>>)
    => /\ \A d \in DOMAIN dbfiles :
            SubSeq(GetFile(contentBucket, InlineSuffix), Wrote(d).off + 1,
                   Wrote(d).off + Len(Wrote(d).data)) = Wrote(d).data
       /\ readAttributes(db[InlineSuffix]).Size
            = Len(GetFile(contentBucket, InlineSuffix))

(***************************************************************************)
(* C37: every change of a working copy through a writable reference, a     *)
(* write or a truncate, marks the working copy dirty (so that the release  *)
(* that brings the count to zero uploads it): a step that changes the      *)
(* bytes of a working copy leaves it dirty.                                *)
(***************************************************************************)
C37_ChangeMarksDirty ==
  [][\A a \in DOMAIN rfs \cap DOMAIN rfs' :
       rfs'[a].data # rfs[a].data => rfs'[a].dirty]_vars

(***************************************************************************)
(* C38: KeyedMutex makes progress. Every Lock that has taken mapMutex      *)
(* returns in the end, given that the threads are scheduled fairly and     *)
(* that every holder of a key unlocks it; and no thread waits for, or      *)
(* holds, the mutex of a key while it has mapMutex.                        *)
(***************************************************************************)
C38_LockReturns ==
  /\ \A t \in Threads :
       (pc[t] \in {"L_map", "L_unmap", "L_wait"}) ~> (pc[t] = "held")
  /\ [](\A t \in Threads : pc[t] \in {"L_wait", "held"} => mapMutex # t)

\* A thread waits for the mutex of a key, without mapMutex, while the holder
\* of the key is at the last step of its Unlock.
C38_Witness ==
  \E t, u \in Threads :
    /\ pc[t] = "L_wait"
    /\ pc[u] = "U_unlock"
    /\ mtx[t] = mtx[u]
    /\ objs[mtx[t]].locked
    /\ mapMutex = NoThread

====
